---- MODULE Spec2Model ----
(***************************************************************************)
(* The batch pipeline of src/datenverarbeitung.py (main and its helpers)   *)
(* as a state machine.  A table (pandas DataFrame) is a record             *)
(* [cols, rows]: cols is the set of column names, rows a sequence of       *)
(* functions from column name to value.  pd.DataFrame() is                 *)
(* [cols |-> {}, rows |-> <<>>].                                           *)
(*                                                                         *)
(* Numbers are integers.  A fraction in [0,1] (danceability, energy, ...)  *)
(* is held in hundredths, a percentage rounded to two decimals in          *)
(* hundredths of a percent, a success score in thousandths of a point,     *)
(* an unrounded ratio as a reduced pair <<numerator, denominator>>.        *)
(***************************************************************************)
EXTENDS Integers, Sequences, FiniteSets, TLC

VARIABLES
    pc,                \* position of main()
    present,           \* the source files (keys of PATHS) that exist
    error,             \* the exception that ended main(), "" when none
    charts,            \* charts
    final_db,          \* final_db
    dataset,           \* dataset
    audio_df,          \* audio_df
    genre_df,          \* genre_df
    merged,            \* merged
    kpi_df,            \* kpi_df
    market_trends,     \* market_trends
    recent_data,       \* recent_data
    high_potential,    \* high_potential
    is_valid,          \* is_valid
    validation_errors, \* validation_errors (one code per message)
    step_counter,      \* step_counter
    JOURNAL_LOG,       \* JOURNAL_LOG
    disk,              \* the files of OUTPUT_DIR: name -> "none" | "old" | "partial" | "new"
    export_pos,        \* how many entries of `outputs` the export loop has passed
    call,              \* the helper function called on its own, with its arguments
    result,            \* the values that calls of the helper have returned so far
    lastfm_api,        \* dashboard.py: the LastFmAPI object (api_key, cache)
    spotify_api,       \* dashboard.py: the SpotifyAPI object (credentials, token, token_expiry)
    clock,             \* dashboard.py: the wall clock, in minutes
    selected_markets,  \* dashboard.py: the data of the store 'selected-markets'
    buttons            \* dashboard.py: className and n_clicks of the four market buttons

\* The state of the dashboard process
dash == <<lastfm_api, spotify_api, clock, selected_markets, buttons>>

vars == <<pc, present, error, charts, final_db, dataset, audio_df, genre_df, merged, kpi_df,
          market_trends, recent_data, high_potential, is_valid, validation_errors,
          step_counter, JOURNAL_LOG, disk, export_pos, call, result, dash>>

\* The tables and files of the pipeline process
pipeline == <<present, charts, final_db, dataset, audio_df, genre_df, merged, kpi_df,
              market_trends, recent_data, high_potential, is_valid, validation_errors,
              step_counter, JOURNAL_LOG, disk, export_pos>>

----------------------------------------------------------------------------
(* Missing values and configuration *)

\* The missing marker (NaN / NaT / None) of a cell, as pd.to_numeric(errors='coerce') yields it.
NaN == -1000000
\* A cell holding text that is not a number (nor a date).
Garbage == NaN - 1
\* An omitted optional argument (Python None default).
None == NaN - 2

IsNa(v) == v = NaN
NotNa(v) == v # NaN

\* CONFIG["min_year"], CONFIG["max_year"], CONFIG["markets"]: config.json is read at
\* lines 13-19; the values are those the column index_growth_2017_2021 and the keys
\* of MARKET_CODES name
MIN_YEAR == 2017
MAX_YEAR == 2021
MARKETS == {"Germany", "United Kingdom", "Brazil"}

\* MARKET_CODES, and Series.map over it (a key that is absent maps to missing)
MARKET_CODES == [m \in {"Germany", "United Kingdom", "Brazil"} |->
                    CASE m = "Germany" -> "DE"
                      [] m = "United Kingdom" -> "UK"
                      [] m = "Brazil" -> "BR"]

NoMarket == "<NA>"

MapMarket(region) ==
    IF region \in DOMAIN MARKET_CODES THEN MARKET_CODES[region] ELSE NoMarket

----------------------------------------------------------------------------
(* Sequences and tables *)

EmptyFrame == [cols |-> {}, rows |-> <<>>]

\* DataFrame.empty: no rows or no columns
IsEmpty(df) == Len(df.rows) = 0 \/ df.cols = {}

\* The subsequence of s at the positions in I, in order
SubSeqAt(s, I) ==
    LET F[k \in 0..Len(s)] ==
            IF k = 0 THEN <<>>
            ELSE IF k \in I THEN Append(F[k-1], s[k]) ELSE F[k-1]
    IN F[Len(s)]

\* df[mask]: the rows satisfying P, columns kept
FilterRows(df, P(_)) == [cols |-> df.cols, rows |-> SelectSeq(df.rows, P)]

\* The row r with column c set to v
SetCol(r, c, v) == (c :> v) @@ r

\* df[c] = f(row) for every row: adds or replaces column c
WithCol(df, c, f(_)) ==
    [cols |-> df.cols \cup {c},
     rows |-> [i \in 1..Len(df.rows) |-> SetCol(df.rows[i], c, f(df.rows[i]))]]

\* df[list of columns]
Project(df, cs) ==
    [cols |-> cs,
     rows |-> [i \in 1..Len(df.rows) |-> [c \in cs |-> df.rows[i][c]]]]

\* DataFrame.drop_duplicates(subset, keep='first'); missing keys compare equal
DropDuplicatesKeepAll(df, subset) == df

DropDuplicates(df, subset) ==
    LET key(r) == [c \in subset |-> r[c]]
        keep == {i \in 1..Len(df.rows) :
                    \A j \in 1..(i-1) : key(df.rows[j]) # key(df.rows[i])}
    IN [cols |-> df.cols, rows |-> SubSeqAt(df.rows, keep)]

\* DataFrame.dropna(subset)
DropNa(df, subset, na(_)) ==
    FilterRows(df, LAMBDA r : \A c \in subset : ~na(r[c]))

RECURSIVE SumSeq(_)
SumSeq(s) == IF s = <<>> THEN 0 ELSE Head(s) + SumSeq(Tail(s))

\* The values of column c over the rows, in row order
Column(rows, c) == [i \in 1..Len(rows) |-> rows[i][c]]

Max(a, b) == IF a >= b THEN a ELSE b
Min(a, b) == IF a <= b THEN a ELSE b

\* Series.max() over the non-missing values; missing when there is none
SeqMax(s) ==
    LET vals == {s[i] : i \in 1..Len(s)} \ {NaN}
    IN IF vals = {} THEN NaN ELSE CHOOSE m \in vals : \A v \in vals : v <= m

----------------------------------------------------------------------------
(* log_step *)

\* A journal that leaves out the steps that removed no row
LogStepUnlessUnchanged(log, step_num, action, target, rows_before, rows_after) ==
    IF rows_before # None /\ rows_after # None /\ rows_before = rows_after
    THEN log
    ELSE Append(log, [step |-> step_num,
                      action |-> action,
                      target |-> target,
                      rows_before |-> rows_before,
                      rows_after |-> rows_after,
                      rows_removed |-> IF rows_before # None /\ rows_after # None
                                       THEN rows_before - rows_after ELSE None])

\* lines 55-73
LogStep(log, step_num, action, target, rows_before, rows_after) ==
    Append(log, [step |-> step_num,
                 action |-> action,
                 target |-> target,
                 rows_before |-> rows_before,
                 rows_after |-> rows_after,
                 rows_removed |-> IF rows_before # None /\ rows_after # None
                                  THEN rows_before - rows_after ELSE None])

----------------------------------------------------------------------------
(* clean_numeric_column *)

\* float('inf'): a numeric value that to_numeric keeps and that is above every bound
Inf == 1000000000

\* pd.to_numeric(errors='coerce') on one cell
ToNumeric(v) == IF v = Garbage THEN NaN ELSE v

\* Series.clip on one cell; a missing cell stays missing
Clip(v, lo, hi) ==
    IF IsNa(v) THEN NaN
    ELSE LET a == IF lo # None /\ v < lo THEN lo ELSE v
         IN IF hi # None /\ a > hi THEN hi ELSE a

\* A cleaning that forgets the upper bound
CleanWithoutUpperBound(v, clip_min, clip_max) ==
    IF clip_min # None THEN Clip(ToNumeric(v), clip_min, None) ELSE ToNumeric(v)

\* lines 87-100, on one cell of the series
clean_numeric_column(v, clip_min, clip_max) ==
    LET clean == ToNumeric(v)
    IN IF clip_min # None /\ clip_max # None THEN Clip(clean, clip_min, clip_max)
       ELSE IF clip_min # None THEN Clip(clean, clip_min, None)
       ELSE clean

----------------------------------------------------------------------------
(* Raw chart export *)

NoId == "<NA>"

\* str.extract(r'track/([A-Za-z0-9]+)'): a URL is its sequence of path segments
ExtractTrackId(url) ==
    IF \E i \in 1..(Len(url)-1) : url[i] = "track"
    THEN url[(CHOOSE i \in 1..(Len(url)-1) :
                 url[i] = "track" /\ \A j \in 1..(i-1) : url[j] # "track") + 1]
    ELSE NoId

\* pd.to_datetime(errors='coerce'): a date is year*10 + k, text that is no date is NaT
ToDatetime(v) == IF v = Garbage THEN NaN ELSE v
YearOf(d) == IF IsNa(d) THEN NaN ELSE d \div 10

\* str.strip on a region cell
Strip(s) == IF s = " Germany " THEN "Germany" ELSE s

ChartRow(region, date, streams, url, rank) ==
    [region |-> region, date |-> date, streams |-> streams, url |-> url,
     rank |-> rank, title |-> "T", artist |-> "A"]

FullChartCols == {"region", "date", "streams", "url", "rank", "title", "artist"}

Url(t) == <<"open.spotify.com", "track", t>>

GoodChartRows ==
    { ChartRow("Germany", 20171, 200, Url("t1"), 1),
      ChartRow("Germany", 20181, 1000, Url("t1"), 1),
      ChartRow("Germany", 20171, 1000, Url("t2"), 1),
      ChartRow("Germany", 20181, 1000, Url("t2"), 1) }

DefectChartRows ==
    { ChartRow("France", 20171, 200, Url("t1"), 1),
      ChartRow(" Germany ", 20171, 200, Url("t1"), 250),
      ChartRow("Germany", Garbage, 200, Url("t1"), 1),
      ChartRow("Germany", 20161, 200, Url("t1"), 1),
      ChartRow("Germany", 20171, 200, <<"open.spotify.com", "album", "a1">>, 1),
      ChartRow("Germany", 20171, NaN, Url("t1"), Garbage),
      ChartRow("Germany", 20171, Garbage, Url("t1"), Garbage),
      ChartRow("Germany", 20171, -200, Url("t1"), 1) }

\* Bounds of the input tables
MaxChartRows == 2
MaxDbRows == 2

SeqsUpTo(S, n) == UNION {[1..k -> S] : k \in 0..n}

\* A table without column c
WithoutCol(df, c) ==
    [cols |-> df.cols \ {c},
     rows |-> [i \in 1..Len(df.rows) |->
                 [k \in df.cols \ {c} |-> df.rows[i][k]]]]

\* The chart exports a run may read: every table of up to MaxChartRows rows with the
\* full schema, and the well-formed ones with one column absent.
ChartInputs ==
    { [cols |-> FullChartCols, rows |-> rs] :
        rs \in SeqsUpTo(GoodChartRows \cup DefectChartRows, MaxChartRows) }
    \cup
    { WithoutCol([cols |-> FullChartCols, rows |-> rs], c) :
        rs \in SeqsUpTo(GoodChartRows, MaxChartRows) \ {<<>>},
        c \in {"rank", "title", "artist", "streams"} }

----------------------------------------------------------------------------
(* main(): loading and cleaning the charts *)

Raise(kind) ==
    /\ pc' = "failed"
    /\ error' = kind

\* A chart loader that goes on with an empty table when the file is missing
LoadChartsTolerant ==
    /\ pc = "load_charts"
    /\ IF "raw_charts" \in present
       THEN \E input \in ChartInputs :
               /\ charts' = input
               /\ JOURNAL_LOG' = LogStep(JOURNAL_LOG, step_counter, "load", "charts",
                                         None, Len(input.rows))
               /\ step_counter' = step_counter + 1
       ELSE /\ charts' = [cols |-> FullChartCols, rows |-> <<>>]
            /\ UNCHANGED <<JOURNAL_LOG, step_counter>>
    /\ pc' = "filter_markets"
    /\ UNCHANGED <<dash, call, result, present, error, final_db, dataset, audio_df, genre_df, merged, kpi_df,
                   market_trends, recent_data, high_potential, is_valid,
                   validation_errors, disk, export_pos>>

\* lines 243-251
LoadCharts ==
    /\ pc = "load_charts"
    /\ IF "raw_charts" \in present
       THEN \E input \in ChartInputs :
               /\ charts' = input
               /\ JOURNAL_LOG' = LogStep(JOURNAL_LOG, step_counter, "load", "charts",
                                         None, Len(input.rows))
               /\ step_counter' = step_counter + 1
               /\ pc' = "filter_markets"
               /\ UNCHANGED error
       ELSE /\ Raise("FileNotFoundError")
            /\ UNCHANGED <<charts, JOURNAL_LOG, step_counter>>
    /\ UNCHANGED <<dash, call, result, present, final_db, dataset, audio_df, genre_df, merged, kpi_df,
                   market_trends, recent_data, high_potential, is_valid,
                   validation_errors, disk, export_pos>>

\* lines 254-264
FilterMarkets ==
    /\ pc = "filter_markets"
    /\ IF {"date", "region"} \subseteq charts.cols
       THEN LET dated == WithCol(charts, "date", LAMBDA r : ToDatetime(r["date"]))
                yeared == WithCol(dated, "year", LAMBDA r : YearOf(r["date"]))
                stripped == WithCol(yeared, "region", LAMBDA r : Strip(r["region"]))
                kept == FilterRows(stripped, LAMBDA r : r["region"] \in MARKETS)
            IN /\ charts' = kept
               /\ JOURNAL_LOG' = LogStep(JOURNAL_LOG, step_counter, "filter", "charts",
                                         Len(charts.rows), Len(kept.rows))
               /\ step_counter' = step_counter + 1
               /\ pc' = "filter_years"
               /\ UNCHANGED error
       ELSE /\ Raise("KeyError")
            /\ UNCHANGED <<charts, JOURNAL_LOG, step_counter>>
    /\ UNCHANGED <<dash, call, result, present, final_db, dataset, audio_df, genre_df, merged, kpi_df, market_trends,
                   recent_data, high_potential, is_valid, validation_errors, disk, export_pos>>

\* lines 266-274
FilterYears ==
    /\ pc = "filter_years"
    /\ LET marketed == WithCol(charts, "market", LAMBDA r : MapMarket(r["region"]))
           kept == FilterRows(marketed,
                      LAMBDA r : NotNa(r["year"]) /\ r["year"] >= MIN_YEAR
                                                  /\ r["year"] <= MAX_YEAR)
       IN /\ charts' = kept
          /\ JOURNAL_LOG' = LogStep(JOURNAL_LOG, step_counter, "filter", "charts",
                                    Len(marketed.rows), Len(kept.rows))
    /\ step_counter' = step_counter + 1
    /\ pc' = "extract_id"
    /\ UNCHANGED <<dash, call, result, present, error, final_db, dataset, audio_df, genre_df, merged, kpi_df,
                   market_trends, recent_data, high_potential, is_valid, validation_errors, disk,
                   export_pos>>

\* lines 277-287
ExtractIds ==
    /\ pc = "extract_id"
    /\ IF {"streams", "url"} \subseteq charts.cols
       THEN LET s == WithCol(charts, "streams",
                        LAMBDA r : clean_numeric_column(r["streams"], 0, None))
                k == IF "rank" \in s.cols
                     THEN WithCol(s, "rank",
                             LAMBDA r : clean_numeric_column(r["rank"], 1, 200))
                     ELSE s
                t == WithCol(k, "track_id", LAMBDA r : ExtractTrackId(r["url"]))
            IN /\ charts' = t
               /\ JOURNAL_LOG' = LogStep(JOURNAL_LOG, step_counter, "feature_engineering",
                                         "charts", Len(t.rows), Len(t.rows))
               /\ step_counter' = step_counter + 1
               /\ pc' = "drop_duplicates"
               /\ UNCHANGED error
       ELSE /\ Raise("KeyError")
            /\ UNCHANGED <<charts, JOURNAL_LOG, step_counter>>
    /\ UNCHANGED <<dash, call, result, present, final_db, dataset, audio_df, genre_df, merged, kpi_df, market_trends,
                   recent_data, high_potential, is_valid, validation_errors, disk, export_pos>>

\* lines 290-296
DropChartDuplicates ==
    /\ pc = "drop_duplicates"
    /\ LET kept == DropDuplicates(charts, {"track_id", "date", "market"})
       IN /\ charts' = kept
          /\ JOURNAL_LOG' = LogStep(JOURNAL_LOG, step_counter, "drop_duplicates", "charts",
                                    Len(charts.rows), Len(kept.rows))
    /\ step_counter' = step_counter + 1
    /\ pc' = "imputation"
    /\ UNCHANGED <<dash, call, result, present, error, final_db, dataset, audio_df, genre_df, merged, kpi_df,
                   market_trends, recent_data, high_potential, is_valid, validation_errors, disk,
                   export_pos>>

\* Series.median() over the non-missing values (the mean of the two middle ones for
\* an even count; the stream counts of the inputs are even, so it is whole)
Median(vals) ==
    LET s == SortSeq(vals, LAMBDA a, b : a < b)
        n == Len(s)
    IN IF n = 0 THEN NaN
       ELSE IF n % 2 = 1 THEN s[(n + 1) \div 2]
       ELSE (s[n \div 2] + s[n \div 2 + 1]) \div 2

\* groupby(['year', 'market']) leaves out rows with a missing key
InGroup(r, year, market) ==
    /\ NotNa(year) /\ market # NoMarket
    /\ r["year"] = year /\ r["market"] = market

GroupMedian(df, year, market) ==
    Median(SelectSeq(Column(SelectSeq(df.rows, LAMBDA r : InGroup(r, year, market)),
                            "streams"),
                     NotNa))

\* lines 299-303
ImputeStreams(df) ==
    WithCol(df, "streams",
        LAMBDA r :
            LET median_streams == GroupMedian(df, r["year"], r["market"])
            IN IF IsNa(r["streams"]) /\ NotNa(median_streams) /\ median_streams > 0
               THEN median_streams ELSE r["streams"])

\* lines 299-309
Imputation ==
    /\ pc = "imputation"
    /\ charts' = ImputeStreams(charts)
    /\ JOURNAL_LOG' = LogStep(JOURNAL_LOG, step_counter, "imputation", "charts",
                              Len(charts.rows), Len(charts.rows))
    /\ step_counter' = step_counter + 1
    /\ pc' = "final_cleanup"
    /\ UNCHANGED <<dash, call, result, present, error, final_db, dataset, audio_df, genre_df, merged, kpi_df,
                   market_trends, recent_data, high_potential, is_valid, validation_errors, disk,
                   export_pos>>

\* A cleanup that keeps the rows without streams (streams >= 0)
CleanChartsKeepingZero(df) ==
    LET keyed == FilterRows(df, LAMBDA r : /\ r["track_id"] # NoId
                                           /\ NotNa(r["date"])
                                           /\ r["market"] # NoMarket)
    IN FilterRows(keyed, LAMBDA r : NotNa(r["streams"]) /\ r["streams"] >= 0)

\* lines 313-314
CleanCharts(df) ==
    LET keyed == FilterRows(df, LAMBDA r : /\ r["track_id"] # NoId
                                           /\ NotNa(r["date"])
                                           /\ r["market"] # NoMarket)
    IN FilterRows(keyed, LAMBDA r : NotNa(r["streams"]) /\ r["streams"] > 0)

\* lines 312-319
FinalCleanup ==
    /\ pc = "final_cleanup"
    /\ charts' = CleanCharts(charts)
    /\ JOURNAL_LOG' = LogStep(JOURNAL_LOG, step_counter, "clean_nulls", "charts",
                              Len(charts.rows), Len(CleanCharts(charts).rows))
    /\ step_counter' = step_counter + 1
    /\ pc' = "load_database"
    /\ UNCHANGED <<dash, call, result, present, error, final_db, dataset, audio_df, genre_df, merged, kpi_df,
                   market_trends, recent_data, high_potential, is_valid, validation_errors, disk,
                   export_pos>>

----------------------------------------------------------------------------
(* harmonize_genre.  A label is its sequence of characters; a category is a name. *)

\* GENRE_MAPPING (the built-in table), in the order of the dict
GENRE_MAPPING ==
    <<
       <<<<"p", "o", "p">>, "Pop">>,
       <<<<"d", "a", "n", "c", "e", " ", "p", "o", "p">>, "Pop">>,
       <<<<"e", "l", "e", "c", "t", "r", "o", "p", "o", "p">>, "Pop">>,
       <<<<"i", "n", "d", "i", "e", " ", "p", "o", "p">>, "Pop">>,
       <<<<"s", "y", "n", "t", "h", "-", "p", "o", "p">>, "Pop">>,
       <<<<"t", "e", "e", "n", " ", "p", "o", "p">>, "Pop">>,
       <<<<"k", "-", "p", "o", "p">>, "Pop">>,
       <<<<"l", "a", "t", "i", "n", " ", "p", "o", "p">>, "Pop">>,
       <<<<"h", "i", "p", " ", "h", "o", "p">>, "Hip-Hop">>,
       <<<<"r", "a", "p">>, "Hip-Hop">>,
       <<<<"t", "r", "a", "p">>, "Hip-Hop">>,
       <<<<"c", "l", "o", "u", "d", " ", "r", "a", "p">>, "Hip-Hop">>,
       <<<<"e", "m", "o", " ", "r", "a", "p">>, "Hip-Hop">>,
       <<<<"g", "a", "n", "g", "s", "t", "e", "r", " ", "r", "a", "p">>, "Hip-Hop">>,
       <<<<"g", "e", "r", "m", "a", "n", " ", "h", "i", "p", " ", "h", "o", "p">>, "Hip-Hop">>,
       <<<<"d", "f", "w", " ", "r", "a", "p">>, "Hip-Hop">>,
       <<<<"d", "e", "e", "p", " ", "g", "e", "r", "m", "a", "n", " ", "h", "i", "p", " ", "h", "o", "p">>, "Hip-Hop">>,
       <<<<"e", "d", "m">>, "Electronic">>,
       <<<<"e", "l", "e", "c", "t", "r", "o", "n", "i", "c">>, "Electronic">>,
       <<<<"h", "o", "u", "s", "e">>, "Electronic">>,
       <<<<"t", "e", "c", "h", "n", "o">>, "Electronic">>,
       <<<<"d", "u", "b", "s", "t", "e", "p">>, "Electronic">>,
       <<<<"t", "r", "a", "n", "c", "e">>, "Electronic">>,
       <<<<"d", "e", "e", "p", " ", "h", "o", "u", "s", "e">>, "Electronic">>,
       <<<<"p", "r", "o", "g", "r", "e", "s", "s", "i", "v", "e", " ", "h", "o", "u", "s", "e">>, "Electronic">>,
       <<<<"b", "i", "g", " ", "r", "o", "o", "m">>, "Electronic">>,
       <<<<"r", "o", "c", "k">>, "Rock">>,
       <<<<"a", "l", "t", "e", "r", "n", "a", "t", "i", "v", "e", " ", "r", "o", "c", "k">>, "Rock">>,
       <<<<"i", "n", "d", "i", "e", " ", "r", "o", "c", "k">>, "Rock">>,
       <<<<"h", "a", "r", "d", " ", "r", "o", "c", "k">>, "Rock">>,
       <<<<"p", "u", "n", "k", " ", "r", "o", "c", "k">>, "Rock">>,
       <<<<"c", "l", "a", "s", "s", "i", "c", " ", "r", "o", "c", "k">>, "Rock">>,
       <<<<"r", "&", "b">>, "R&B">>,
       <<<<"r", " ", "&", " ", "b">>, "R&B">>,
       <<<<"s", "o", "u", "l">>, "R&B">>,
       <<<<"n", "e", "o", " ", "s", "o", "u", "l">>, "R&B">>,
       <<<<"l", "a", "t", "i", "n">>, "Latin">>,
       <<<<"r", "e", "g", "g", "a", "e", "t", "o", "n">>, "Latin">>,
       <<<<"b", "a", "c", "h", "a", "t", "a">>, "Latin">>,
       <<<<"s", "a", "l", "s", "a">>, "Latin">>,
       <<<<"s", "e", "r", "t", "a", "n", "e", "j", "o">>, "Latin">>,
       <<<<"f", "u", "n", "k", " ", "c", "a", "r", "i", "o", "c", "a">>, "Latin">>,
       <<<<"f", "o", "r", "r", "o">>, "Latin">>,
       <<<<"c", "o", "u", "n", "t", "r", "y">>, "Country">>,
       <<<<"c", "o", "u", "n", "t", "r", "y", " ", "p", "o", "p">>, "Country">>,
       <<<<"b", "l", "u", "e", "g", "r", "a", "s", "s">>, "Country">>,
       <<<<"j", "a", "z", "z">>, "Jazz">>,
       <<<<"b", "e", "b", "o", "p">>, "Jazz">>,
       <<<<"s", "m", "o", "o", "t", "h", " ", "j", "a", "z", "z">>, "Jazz">>
    >>

\* A missing Genre cell
NoLabel == <<"<NA>">>

UpperCase == <<"A", "B", "C", "D", "E", "F", "G", "H", "I", "J", "K", "L", "M",
               "N", "O", "P", "Q", "R", "S", "T", "U", "V", "W", "X", "Y", "Z">>
LowerCase == <<"a", "b", "c", "d", "e", "f", "g", "h", "i", "j", "k", "l", "m",
               "n", "o", "p", "q", "r", "s", "t", "u", "v", "w", "x", "y", "z">>

\* str.lower
LowerChar(c) ==
    IF \E i \in 1..Len(UpperCase) : UpperCase[i] = c
    THEN LowerCase[CHOOSE i \in 1..Len(UpperCase) : UpperCase[i] = c]
    ELSE c

Lower(s) == [i \in 1..Len(s) |-> LowerChar(s[i])]

\* str.strip
StripLabel(s) ==
    LET solid == {i \in 1..Len(s) : s[i] # " "}
    IN IF solid = {} THEN <<>>
       ELSE SubSeq(s, CHOOSE i \in solid : \A j \in solid : i <= j,
                      CHOOSE i \in solid : \A j \in solid : j <= i)

\* key in genre_lower
IsSubstring(key, s) ==
    \E i \in 0..(Len(s) - Len(key)) : SubSeq(s, i + 1, i + Len(key)) = key

\* A harmonizer without the exact match: the first key inside the label decides
HarmonizeBySubstringOnly(genre_str) ==
    IF genre_str = NoLabel THEN "Other"
    ELSE LET genre_lower == StripLabel(Lower(genre_str))
             within == {i \in 1..Len(GENRE_MAPPING) :
                           IsSubstring(GENRE_MAPPING[i][1], genre_lower)}
         IN IF within # {}
            THEN GENRE_MAPPING[CHOOSE i \in within : \A j \in within : i <= j][2]
            ELSE "Other"

\* lines 102-112
harmonize_genre(genre_str) ==
    IF genre_str = NoLabel THEN "Other"
    ELSE LET genre_lower == StripLabel(Lower(genre_str))
             exact == {i \in 1..Len(GENRE_MAPPING) : GENRE_MAPPING[i][1] = genre_lower}
             within == {i \in 1..Len(GENRE_MAPPING) :
                           IsSubstring(GENRE_MAPPING[i][1], genre_lower)}
         IN IF exact # {} THEN GENRE_MAPPING[CHOOSE i \in exact : TRUE][2]
            ELSE IF within # {}
                 THEN GENRE_MAPPING[CHOOSE i \in within : \A j \in within : i <= j][2]
                 ELSE "Other"

\* The categories a harmonized genre can be
Categories == {GENRE_MAPPING[i][2] : i \in 1..Len(GENRE_MAPPING)} \cup {"Other"}

----------------------------------------------------------------------------
(* Raw feature database and audio-feature dataset *)

DbRow(uri, genre, danceability, followers, top10) ==
    [Uri |-> uri, Genre |-> genre, danceability |-> danceability, energy |-> 80,
     valence |-> 50, Artist_followers |-> followers, Top10_dummy |-> top10]

FullDbCols == {"Uri", "Genre", "danceability", "energy", "valence",
               "Artist_followers", "Top10_dummy"}

AudioFeatures == {"danceability", "energy", "valence"}
AudioMeta == {"Artist_followers", "Top10_dummy"}

GoodDbRows ==
    { DbRow(Url("t1"), <<"p", "o", "p">>, 80, 1023, 1),
      DbRow(Url("t2"), <<" ", "I", "n", "d", "i", "e", " ", "R", "o", "c", "k", "s">>,
            150, 0, 0) }

DefectDbRows ==
    { DbRow(Url("t1"), <<"s", "c", "h", "l", "a", "g", "e", "r">>, NaN, 1023, 1),
      DbRow(<<"open.spotify.com", "album", "a1">>, NoLabel, Garbage, 1023, 1) }

\* The feature databases a run may read: every table of up to MaxDbRows rows with
\* the full schema, and the well-formed one-row tables with one column absent.
DbInputs ==
    { [cols |-> FullDbCols, rows |-> rs] :
        rs \in SeqsUpTo(GoodDbRows \cup DefectDbRows, MaxDbRows) }
    \cup
    { WithoutCol([cols |-> FullDbCols, rows |-> <<r>>], c) :
        r \in GoodDbRows, c \in {"Uri", "Genre", "danceability", "valence"} }

DatasetInput == [cols |-> {"track_id"}, rows |-> << [track_id |-> "t1"] >>]

\* lines 326-335
LoadDatabase ==
    /\ pc = "load_database"
    /\ IF "raw_database" \in present
       THEN \E input \in DbInputs :
               /\ final_db' = input
               /\ JOURNAL_LOG' = LogStep(JOURNAL_LOG, step_counter, "load", "final_db",
                                         None, Len(input.rows))
               /\ step_counter' = step_counter + 1
       ELSE /\ final_db' = EmptyFrame
            /\ UNCHANGED <<JOURNAL_LOG, step_counter>>
    /\ pc' = "load_dataset"
    /\ UNCHANGED <<dash, call, result, present, error, charts, dataset, audio_df, genre_df, merged, kpi_df,
                   market_trends, recent_data, high_potential, is_valid,
                   validation_errors, disk, export_pos>>

\* lines 337-346
LoadDataset ==
    /\ pc = "load_dataset"
    /\ IF "raw_spotify" \in present
       THEN /\ dataset' = DatasetInput
            /\ JOURNAL_LOG' = LogStep(JOURNAL_LOG, step_counter, "load", "dataset",
                                      None, Len(DatasetInput.rows))
            /\ step_counter' = step_counter + 1
       ELSE /\ dataset' = EmptyFrame
            /\ UNCHANGED <<JOURNAL_LOG, step_counter>>
    /\ pc' = "prepare_audio"
    /\ UNCHANGED <<dash, call, result, present, error, charts, final_db, audio_df, genre_df, merged, kpi_df,
                   market_trends, recent_data, high_potential, is_valid,
                   validation_errors, disk, export_pos>>

\* lines 352-359: final_db with its track_id column
WithTrackIds(db) ==
    LET extracted == IF "Uri" \in db.cols
                     THEN WithCol(db, "track_id", LAMBDA r : ExtractTrackId(r["Uri"]))
                     ELSE db
    IN IF "track_id" \notin extracted.cols
       THEN WithCol(extracted, "track_id", LAMBDA r : NoId)
       ELSE extracted

IsNoId(v) == v = NoId

\* lines 374-380
AudioRows(db) ==
    IF ~IsEmpty(db)
    THEN DropDuplicates(
            DropNa(Project(db, {"track_id"} \cup (db.cols \cap (AudioFeatures \cup AudioMeta))),
                   {"track_id"}, IsNoId),
            {"track_id"})
    ELSE EmptyFrame

RECURSIVE CleanCols(_, _)
\* lines 390-392: each audio feature present is cleaned into [0, 1] (hundredths)
CleanCols(df, todo) ==
    IF todo = {} THEN df
    ELSE LET c == CHOOSE c \in todo : TRUE
         IN CleanCols(WithCol(df, c, LAMBDA r : clean_numeric_column(r[c], 0, 100)),
                      todo \ {c})

\* lines 352-408
PrepareAudio ==
    /\ pc = "prepare_audio"
    /\ LET db == WithTrackIds(final_db)
           raw == AudioRows(db)
       IN /\ final_db' = db
          /\ IF ~IsEmpty(raw)
             THEN /\ audio_df' = CleanCols(raw, raw.cols \cap AudioFeatures)
                  /\ JOURNAL_LOG' =
                        LogStep(LogStep(JOURNAL_LOG, step_counter, "clean_nulls", "audio_df",
                                        IF ~IsEmpty(db) THEN Len(db.rows) ELSE 0,
                                        Len(raw.rows)),
                                step_counter + 1, "clean_numeric", "audio_df",
                                Len(raw.rows), Len(raw.rows))
                  /\ step_counter' = step_counter + 2
             ELSE /\ audio_df' = raw
                  /\ UNCHANGED <<JOURNAL_LOG, step_counter>>
    /\ pc' = "genre_mapping"
    /\ UNCHANGED <<dash, call, result, present, error, charts, dataset, genre_df, merged, kpi_df, market_trends,
                   recent_data, high_potential, is_valid, validation_errors, disk, export_pos>>

\* lines 413-419
GenreRows(db) ==
    DropDuplicates(DropNa(Project(db, db.cols \cap {"track_id", "Genre"}),
                          {"track_id"}, IsNoId),
                   {"track_id"})

\* lines 413-438
GenreMapping ==
    /\ pc = "genre_mapping"
    /\ IF "track_id" \in final_db.cols
       THEN IF "Genre" \in final_db.cols
            THEN LET g == GenreRows(final_db)
                     h == WithCol(g, "genre_harmonized",
                                  LAMBDA r : harmonize_genre(r["Genre"]))
                 IN /\ genre_df' = h
                    /\ JOURNAL_LOG' = LogStep(JOURNAL_LOG, step_counter, "harmonize",
                                              "genre_df", Len(g.rows), Len(h.rows))
                    /\ step_counter' = step_counter + 1
                    /\ pc' = "merge_audio"
                    /\ UNCHANGED error
            ELSE /\ Raise("KeyError")
                 /\ UNCHANGED <<genre_df, JOURNAL_LOG, step_counter>>
       ELSE /\ genre_df' = EmptyFrame
            /\ pc' = "merge_audio"
            /\ UNCHANGED <<error, JOURNAL_LOG, step_counter>>
    /\ UNCHANGED <<dash, call, result, present, charts, final_db, dataset, audio_df, merged, kpi_df, market_trends,
                   recent_data, high_potential, is_valid, validation_errors, disk, export_pos>>

----------------------------------------------------------------------------
(* Merging *)

NoCategory == "<NA>"

\* A join that fills the numeric columns it could not match with zero
MissingAsZero(c) == IF c = "genre_harmonized" THEN NoCategory ELSE 0

\* The missing value of a column that a left join could not fill
Missing(c) == IF c = "genre_harmonized" THEN NoCategory ELSE NaN

\* left.merge(right, on='track_id', how='left'): every left row once per matching
\* right row, in left order, and once with the right columns missing when none matches
LeftMerge(left, right) ==
    LET extra == right.cols \ {"track_id"}
        joined(l) ==
            LET ms == SelectSeq(right.rows, LAMBDA r : r["track_id"] = l["track_id"])
            IN IF ms = <<>> THEN << l @@ [c \in extra |-> Missing(c)] >>
               ELSE [k \in 1..Len(ms) |-> l @@ [c \in extra |-> ms[k][c]]]
        F[k \in 0..Len(left.rows)] ==
            IF k = 0 THEN <<>> ELSE F[k-1] \o joined(left.rows[k])
    IN [cols |-> left.cols \cup extra, rows |-> F[Len(left.rows)]]

\* lines 443-451
MergeAudio ==
    /\ pc = "merge_audio"
    /\ IF "track_id" \in audio_df.cols /\ "track_id" \in charts.cols
       THEN LET m == LeftMerge(charts, audio_df)
            IN /\ merged' = m
               /\ JOURNAL_LOG' = LogStep(JOURNAL_LOG, step_counter, "merge", "merged",
                                         Len(charts.rows), Len(m.rows))
               /\ step_counter' = step_counter + 1
               /\ pc' = "merge_genre"
               /\ UNCHANGED error
       ELSE /\ Raise("KeyError")
            /\ UNCHANGED <<merged, JOURNAL_LOG, step_counter>>
    /\ UNCHANGED <<dash, call, result, present, charts, final_db, dataset, audio_df, genre_df, kpi_df, market_trends,
                   recent_data, high_potential, is_valid, validation_errors, disk,
                   export_pos>>

\* Series.fillna('Other')
FillOther(v) == IF v = NoCategory THEN "Other" ELSE v

\* lines 453-474
MergeGenre ==
    /\ pc = "merge_genre"
    /\ IF ~IsEmpty(genre_df)
       THEN LET m == LeftMerge(merged, Project(genre_df, {"track_id", "genre_harmonized"}))
            IN /\ merged' = WithCol(m, "genre_harmonized",
                                    LAMBDA r : FillOther(r["genre_harmonized"]))
               /\ JOURNAL_LOG' = LogStep(JOURNAL_LOG, step_counter, "merge", "merged",
                                         Len(merged.rows), Len(m.rows))
               /\ step_counter' = step_counter + 1
       ELSE /\ merged' = WithCol(merged, "genre_harmonized", LAMBDA r : "Other")
            /\ UNCHANGED <<JOURNAL_LOG, step_counter>>
    /\ pc' = "success_score"
    /\ UNCHANGED <<dash, call, result, present, error, charts, final_db, dataset, audio_df, genre_df, kpi_df,
                   market_trends, recent_data, high_potential, is_valid,
                   validation_errors, disk, export_pos>>

----------------------------------------------------------------------------
(* calculate_success_score, in thousandths of a point *)

RECURSIVE FloorLog2(_)
FloorLog2(y) == IF y < 2 THEN 0 ELSE 1 + FloorLog2(y \div 2)

\* np.log1p in fixed point: the base-2 logarithm of 1 + x with the mantissa
\* interpolated linearly, exact where 1 + x is a power of two.  Only ratios of
\* two logarithms are used, so the base does not matter.
LogScale == 2 ^ 10
Log1p(x) ==
    IF x = Inf THEN Inf
    ELSE LET y == x + 1
             k == FloorLog2(y)
         IN k * LogScale + ((y - 2 ^ k) * LogScale) \div (2 ^ k)

FillZero(v) == IF IsNa(v) THEN 0 ELSE v

\* lines 150-155 and 165-170: a column's log term relative to the largest of the table.
\* With an infinite value in the column the largest logarithm is infinite: inf / inf
\* is NaN, a finite logarithm divided by it is 0.
LogTerm(df, c, i, weight) ==
    LET logs == [k \in 1..Len(df.rows) |->
                    Log1p(FillZero(clean_numeric_column(df.rows[k][c], 0, None)))]
        top == SeqMax(logs)
    IN IF NotNa(top) /\ top > 0
       THEN IF top = Inf THEN (IF logs[i] = Inf THEN NaN ELSE 0)
            ELSE (weight * 1000 * logs[i]) \div top
       ELSE 0

\* The six terms of the score of row i of df
ScoreTerms(df, i) ==
    LET r == df.rows[i]
    IN << IF "rank" \in df.cols
          THEN LET rank_clean == clean_numeric_column(r["rank"], 1, 200)
               IN IF IsNa(rank_clean) THEN 0 ELSE (200 - rank_clean) * 125
          ELSE 0,
          IF "streams" \in df.cols THEN LogTerm(df, "streams", i, 15) ELSE 0,
          IF "danceability" \in df.cols
          THEN FillZero(clean_numeric_column(r["danceability"], 0, 100)) * 150 ELSE 0,
          IF "energy" \in df.cols
          THEN FillZero(clean_numeric_column(r["energy"], 0, 100)) * 150 ELSE 0,
          IF "Artist_followers" \in df.cols
          THEN LogTerm(df, "Artist_followers", i, 20) ELSE 0,
          IF "Top10_dummy" \in df.cols
          THEN FillZero(clean_numeric_column(r["Top10_dummy"], 0, 1)) * 10000 ELSE 0 >>

\* The score of row i of df: the sum of its terms, NaN when a term is NaN
ScoreOfRow(df, i) ==
    LET terms == ScoreTerms(df, i)
    IN IF \E k \in 1..Len(terms) : IsNa(terms[k]) THEN NaN ELSE SumSeq(terms)

\* A scorer that works once per process: it scores only while the journal of the
\* process is empty
ScoreOnlyInFreshProcess(df) ==
    [i \in 1..Len(df.rows) |-> IF JOURNAL_LOG = <<>> THEN ScoreOfRow(df, i) ELSE 0]

calculate_success_score(df) == [i \in 1..Len(df.rows) |-> ScoreOfRow(df, i)]

\* lines 481-486
SuccessScore ==
    /\ pc = "success_score"
    /\ LET scores == calculate_success_score(merged)
       IN merged' = [cols |-> merged.cols \cup {"success_score"},
                     rows |-> [i \in 1..Len(merged.rows) |->
                                 SetCol(merged.rows[i], "success_score", scores[i])]]
    /\ JOURNAL_LOG' = LogStep(JOURNAL_LOG, step_counter, "feature_engineering", "merged",
                              Len(merged.rows), Len(merged.rows))
    /\ step_counter' = step_counter + 1
    /\ pc' = "kpi"
    /\ UNCHANGED <<dash, call, result, present, error, charts, final_db, dataset, audio_df, genre_df, kpi_df,
                   market_trends, recent_data, high_potential, is_valid,
                   validation_errors, disk, export_pos>>

----------------------------------------------------------------------------
(* KPI aggregation *)

\* groupby sorts its keys: markets and genre categories in string order.  The
\* categories of the built-in table come first, then those of a replacement table
\* (genre_mapping.json), which are named g01, g02, ...
MarketOrder == <<"BR", "DE", "UK">>
CustomCategories ==
    <<
       "g01", "g02", "g03", "g04", "g05", "g06", "g07", "g08", "g09", "g10", "g11",
       "g12", "g13", "g14", "g15", "g16", "g17", "g18", "g19", "g20", "g21", "g22",
       "g23", "g24", "g25", "g26", "g27", "g28", "g29", "g30", "g31", "g32", "g33",
       "g34", "g35", "g36", "g37", "g38", "g39", "g40", "g41", "g42", "g43", "g44",
       "g45", "g46", "g47", "g48", "g49", "g50"
    >>
CategoryOrder ==
    <<"Country", "Electronic", "Hip-Hop", "Jazz", "Latin", "Other", "Pop", "R&B", "Rock">>
    \o CustomCategories

PositionIn(order, x) == CHOOSE i \in 1..Len(order) : order[i] = x

\* The elements of S in increasing rank (ranks are distinct)
SortedBy(S, rank(_)) ==
    [i \in 1..Cardinality(S) |->
        CHOOSE x \in S : Cardinality({y \in S : rank(y) < rank(x)}) = i - 1]

\* Round n/d (n >= 0, d > 0) to the nearest integer, a tie to the even one
\* (numpy's and Python's round)
RoundHalfEven(n, d) ==
    LET q == n \div d
        r == n % d
    IN IF 2 * r < d THEN q
       ELSE IF 2 * r > d THEN q + 1
       ELSE IF q % 2 = 0 THEN q ELSE q + 1

RECURSIVE GCD(_, _)
GCD(a, b) == IF b = 0 THEN a ELSE GCD(b, a % b)

\* The float n/d as a reduced fraction (n >= 0, d > 0)
Ratio(n, d) == LET g == GCD(n, d) IN <<n \div g, d \div g>>

Hundred == Ratio(100, 1)

RowsOf(df, year, market) ==
    SelectSeq(df.rows, LAMBDA r : r["year"] = year /\ r["market"] = market)

RowsOfGenre(rows, genre) ==
    SelectSeq(rows, LAMBDA r : r["genre_harmonized"] = genre)

StreamSum(rows) == SumSeq(Column(rows, "streams"))

\* A share left as a fraction of 1: the factor 100 is missing
MarketShareAsFraction(streams, total_streams) == RoundHalfEven(streams * 100, total_streams)

\* A share that is cut off after two decimals instead of rounded
MarketShareTruncating(streams, total_streams) == (streams * 10000) \div total_streams

\* line 501: the share of a genre in its slice, in hundredths of a percent
MarketShare(streams, total_streams) == RoundHalfEven(streams * 10000, total_streams)

\* A growth index whose baseline is the whole market of the baseline year, not the
\* genre's share of it
GrowthMomentumAnyGenre(df, year, market, genre, genre_group, min_year) ==
    LET baseline_group ==
            SelectSeq(df.rows, LAMBDA r : r["year"] = min_year /\ r["market"] = market)
    IN IF Len(baseline_group) > 0 /\ year > min_year
       THEN IF StreamSum(baseline_group) > 0
            THEN Ratio(StreamSum(genre_group) * 100, StreamSum(baseline_group))
            ELSE Hundred
       ELSE Hundred

\* lines 509-515
GrowthMomentum(df, year, market, genre, genre_group, min_year) ==
    LET baseline_group ==
            SelectSeq(df.rows, LAMBDA r : /\ r["year"] = min_year
                                          /\ r["market"] = market
                                          /\ r["genre_harmonized"] = genre)
    IN IF Len(baseline_group) > 0 /\ year > min_year
       THEN IF StreamSum(baseline_group) > 0
            THEN Ratio(StreamSum(genre_group) * 100, StreamSum(baseline_group))
            ELSE Hundred
       ELSE Hundred

\* np.log of the whole numbers 1 to 64, in millionths
LnMicro ==
    <<
       0, 693147, 1098612, 1386294, 1609438, 1791759, 1945910, 2079442, 2197225, 2302585,
       2397895, 2484907, 2564949, 2639057, 2708050, 2772589, 2833213, 2890372, 2944439,
       2995732, 3044522, 3091042, 3135494, 3178054, 3218876, 3258097, 3295837, 3332205,
       3367296, 3401197, 3433987, 3465736, 3496508, 3526361, 3555348, 3583519, 3610918,
       3637586, 3663562, 3688879, 3713572, 3737670, 3761200, 3784190, 3806662, 3828641,
       3850148, 3871201, 3891820, 3912023, 3931826, 3951244, 3970292, 3988984, 4007333,
       4025352, 4043051, 4060443, 4077537, 4094345, 4110874, 4127134, 4143135, 4158883
    >>

Ln(n) == LnMicro[n]

\* series.value_counts(): how often each value of the column occurs
ValueCounts(rows, c) ==
    LET values == {rows[i][c] : i \in 1..Len(rows)}
    IN [v \in values |-> Len(SelectSeq(rows, LAMBDA r : r[c] = v))]

RECURSIVE SumOver(_, _)
SumOver(f, S) ==
    IF S = {} THEN 0
    ELSE LET x == CHOOSE y \in S : TRUE IN f[x] + SumOver(f, S \ {x})

\* lines 136-139: -sum(p * ln(p)) over the proportions p = count / total, which is
\* ln(total) - sum(count * ln(count)) / total; in millionths (the 1e-12 inside the
\* logarithm is below that)
calculate_shannon_diversity(rows) ==
    LET counts == ValueCounts(rows, "genre_harmonized")
        total == Len(rows)
        weighted == [v \in DOMAIN counts |-> counts[v] * Ln(counts[v])]
    IN Ln(total) - SumOver(weighted, DOMAIN counts) \div total

\* A composite that takes the growth index as it is, without the cap at 200
MarketPotentialUncapped(share, successes, n, growth) ==
    RoundHalfEven(2 * share * n * growth[2] + 15000 * successes * growth[2]
                     + 75 * n * growth[1],
                  5 * n * growth[2])

\* lines 519-527 and 533, in hundredths of a point
MarketPotential(share, successes, n, growth) ==
    LET capped == Min(growth[1], 200 * growth[2])
    IN RoundHalfEven(2 * share * n * growth[2] + 15000 * successes * growth[2]
                        + 75 * n * capped,
                     5 * n * growth[2])

\* lines 504-535: the KPI row of one genre of one slice
KpiRow(df, year, market, genre, min_year) ==
    LET group == RowsOf(df, year, market)
        total_streams == StreamSum(group)
        genre_group == RowsOfGenre(group, genre)
        share == MarketShare(StreamSum(genre_group), total_streams)
        successes == Len(SelectSeq(genre_group, LAMBDA r : r["success_score"] >= 65000))
        growth == GrowthMomentum(df, year, market, genre, genre_group, min_year)
        shannon == calculate_shannon_diversity(group)
    IN [market |-> market, year |-> year, genre |-> genre, genre_harmonized |-> genre,
        streams_total |-> StreamSum(genre_group),
        market_share_percent |-> share,
        index_growth_2017_2021 |-> growth,
        shannon_diversity |-> RoundHalfEven(shannon, 1000),
        success_rate_percent |-> RoundHalfEven(successes * 10000, Len(genre_group)),
        market_potential_score |->
            MarketPotential(share, successes, Len(genre_group), growth),
        growth_momentum_index |-> RoundHalfEven(growth[1] * 100, growth[2])]

KpiCols == {"market", "year", "genre", "genre_harmonized", "streams_total",
            "market_share_percent", "index_growth_2017_2021", "shannon_diversity",
            "success_rate_percent", "market_potential_score", "growth_momentum_index"}

KeyRank(k) ==
    (k[1] * 100 + PositionIn(MarketOrder, k[2])) * 100 + PositionIn(CategoryOrder, k[3])

\* An aggregation that emits one KPI row per merged row instead of one per genre
KpiTablePerRow(df, min_year) ==
    IF \A i \in 1..Len(df.rows) :
          StreamSum(RowsOf(df, df.rows[i]["year"], df.rows[i]["market"])) = 0
    THEN EmptyFrame
    ELSE [cols |-> KpiCols,
          rows |-> [i \in 1..Len(df.rows) |->
                      KpiRow(df, df.rows[i]["year"], df.rows[i]["market"],
                             df.rows[i]["genre_harmonized"], min_year)]]

\* An aggregation that keeps the slices without streams, their shares set to 0
KpiTableKeepingEmptySlices(df, min_year) ==
    LET keys == { <<r["year"], r["market"], r["genre_harmonized"]>> :
                     r \in {df.rows[i] : i \in 1..Len(df.rows)} }
        order == SortedBy(keys, KeyRank)
        empty(k) == [market |-> k[2], year |-> k[1], genre |-> k[3],
                     genre_harmonized |-> k[3], streams_total |-> 0,
                     market_share_percent |-> 0, index_growth_2017_2021 |-> Hundred,
                     shannon_diversity |-> 0,
                     success_rate_percent |-> 0, market_potential_score |-> 1500,
                     growth_momentum_index |-> 10000]
    IN IF keys = {} THEN EmptyFrame
       ELSE [cols |-> KpiCols,
             rows |-> [i \in 1..Len(order) |->
                         IF StreamSum(RowsOf(df, order[i][1], order[i][2])) = 0
                         THEN empty(order[i])
                         ELSE KpiRow(df, order[i][1], order[i][2], order[i][3],
                                     min_year)]]

\* lines 493-537
KpiTable(df, min_year) ==
    LET keys == { <<r["year"], r["market"], r["genre_harmonized"]>> :
                     r \in {df.rows[i] : i \in 1..Len(df.rows)} }
        live == {k \in keys : StreamSum(RowsOf(df, k[1], k[2])) # 0}
        order == SortedBy(live, KeyRank)
    IN IF live = {} THEN EmptyFrame
       ELSE [cols |-> KpiCols,
             rows |-> [i \in 1..Len(order) |->
                         KpiRow(df, order[i][1], order[i][2], order[i][3], min_year)]]

\* lines 493-541
KpiMetrics ==
    /\ pc = "kpi"
    /\ kpi_df' = KpiTable(merged, MIN_YEAR)
    /\ JOURNAL_LOG' = LogStep(JOURNAL_LOG, step_counter, "aggregate", "kpi_df",
                              None, Len(KpiTable(merged, MIN_YEAR).rows))
    /\ step_counter' = step_counter + 1
    /\ pc' = "market_trends"
    /\ UNCHANGED <<dash, call, result, present, error, charts, final_db, dataset, audio_df, genre_df, merged,
                   market_trends, recent_data, high_potential, is_valid,
                   validation_errors, disk, export_pos>>

----------------------------------------------------------------------------
(* Market trends and high-potential tracks *)

SliceRank(k) == k[1] * 100 + PositionIn(MarketOrder, k[2])

\* lines 547-548
TrendTable(df) ==
    LET keys == { <<r["year"], r["market"]>> : r \in {df.rows[i] : i \in 1..Len(df.rows)} }
        order == SortedBy(keys, SliceRank)
        total(year, market) == StreamSum(RowsOf(df, year, market))
        ofYear(year) == StreamSum(SelectSeq(df.rows, LAMBDA r : r["year"] = year))
    IN [cols |-> {"year", "market", "total_streams", "market_share_percent"},
        rows |-> [i \in 1..Len(order) |->
                    [year |-> order[i][1], market |-> order[i][2],
                     total_streams |-> total(order[i][1], order[i][2]),
                     market_share_percent |->
                        RoundHalfEven(total(order[i][1], order[i][2]) * 10000,
                                      ofYear(order[i][1]))]]]

\* lines 547-552
MarketTrends ==
    /\ pc = "market_trends"
    /\ market_trends' = TrendTable(merged)
    /\ JOURNAL_LOG' = LogStep(JOURNAL_LOG, step_counter, "aggregate", "market_trends",
                              None, Len(TrendTable(merged).rows))
    /\ step_counter' = step_counter + 1
    /\ pc' = "recent_filter"
    /\ UNCHANGED <<dash, call, result, present, error, charts, final_db, dataset, audio_df, genre_df, merged, kpi_df,
                   recent_data, high_potential, is_valid, validation_errors, disk,
                   export_pos>>

\* A filter that takes every year of the table for recent
RecentYearsAll(df) ==
    LET years == {df.rows[i]["year"] : i \in 1..Len(df.rows)}
    IN SortedBy(years, LAMBDA y : y)

\* line 558: sorted(merged['year'].unique())[-2:]
RecentYears(df) ==
    LET years == {df.rows[i]["year"] : i \in 1..Len(df.rows)}
        sorted == SortedBy(years, LAMBDA y : y)
    IN SubSeq(sorted, Max(1, Len(sorted) - 1), Len(sorted))

\* lines 558-564; the description of the journal entry reads recent_years[0] and [1]
RecentFilter ==
    /\ pc = "recent_filter"
    /\ LET recent_years == RecentYears(merged)
           kept == FilterRows(merged,
                      LAMBDA r : \E i \in 1..Len(recent_years) : recent_years[i] = r["year"])
       IN IF Len(recent_years) >= 2
          THEN /\ recent_data' = kept
               /\ JOURNAL_LOG' = LogStep(JOURNAL_LOG, step_counter, "filter", "recent_data",
                                         Len(merged.rows), Len(kept.rows))
               /\ step_counter' = step_counter + 1
               /\ pc' = "high_potential"
               /\ UNCHANGED error
          ELSE /\ Raise("IndexError")
               /\ UNCHANGED <<recent_data, JOURNAL_LOG, step_counter>>
    /\ UNCHANGED <<dash, call, result, present, charts, final_db, dataset, audio_df, genre_df, merged, kpi_df,
                   market_trends, high_potential, is_valid, validation_errors, disk,
                   export_pos>>

\* The columns the aggregation of lines 566-569 names
AggCols == {"streams", "rank", "title", "artist", "genre_harmonized", "year",
            "success_score", "danceability", "energy", "valence"}

TrackOrder == <<"t1", "t2">>
TrackRank(k) == PositionIn(TrackOrder, k[1]) * 100 + PositionIn(MarketOrder, k[2])

\* 'first': the first value of the group that is not missing
FirstOf(rows, c) ==
    LET there == SelectSeq(Column(rows, c), NotNa)
    IN IF there = <<>> THEN NaN ELSE there[1]

\* 'mean' over the values that are not missing, rounded down
MeanOf(rows, c) ==
    LET there == SelectSeq(Column(rows, c), NotNa)
    IN IF there = <<>> THEN NaN ELSE SumSeq(there) \div Len(there)

\* lines 566-569
TrackTable(df) ==
    LET keys == { <<r["track_id"], r["market"]>> : r \in {df.rows[i] : i \in 1..Len(df.rows)} }
        order == SortedBy(keys, TrackRank)
        of(k) == SelectSeq(df.rows, LAMBDA r : r["track_id"] = k[1] /\ r["market"] = k[2])
    IN [cols |-> (AggCols \cup {"track_id", "market", "track_name", "total_streams"})
                    \ {"title", "streams"},
        rows |-> [i \in 1..Len(order) |->
                    [track_id |-> order[i][1], market |-> order[i][2],
                     total_streams |-> StreamSum(of(order[i])),
                     rank |-> MeanOf(of(order[i]), "rank"),
                     track_name |-> of(order[i])[1]["title"],
                     artist |-> of(order[i])[1]["artist"],
                     genre_harmonized |-> of(order[i])[1]["genre_harmonized"],
                     year |-> SeqMax(Column(of(order[i]), "year")),
                     success_score |-> MeanOf(of(order[i]), "success_score"),
                     danceability |-> FirstOf(of(order[i]), "danceability"),
                     energy |-> FirstOf(of(order[i]), "energy"),
                     valence |-> FirstOf(of(order[i]), "valence")]]]

\* sort_values('success_score', ascending=False)
SortByScore(df) ==
    LET n == Len(df.rows)
        before(i, j) == \/ df.rows[i]["success_score"] > df.rows[j]["success_score"]
                        \/ /\ df.rows[i]["success_score"] = df.rows[j]["success_score"]
                           /\ i < j
        place(i) == 1 + Cardinality({j \in 1..n : before(j, i)})
    IN [cols |-> df.cols,
        rows |-> [p \in 1..n |-> df.rows[CHOOSE i \in 1..n : place(i) = p]]]

\* lines 566-578
HighPotential ==
    /\ pc = "high_potential"
    /\ IF AggCols \subseteq recent_data.cols
       THEN LET tracks == TrackTable(recent_data)
                kept == FilterRows(tracks, LAMBDA r : r["total_streams"] >= 1000)
            IN /\ high_potential' = SortByScore(kept)
               /\ JOURNAL_LOG' = LogStep(JOURNAL_LOG, step_counter, "filter",
                                         "high_potential", Len(tracks.rows), Len(kept.rows))
               /\ step_counter' = step_counter + 1
               /\ pc' = "validate"
               /\ UNCHANGED error
       ELSE /\ Raise("KeyError")
            /\ UNCHANGED <<high_potential, JOURNAL_LOG, step_counter>>
    /\ UNCHANGED <<dash, call, result, present, charts, final_db, dataset, audio_df, genre_df, merged, kpi_df,
                   market_trends, recent_data, is_valid, validation_errors, disk,
                   export_pos>>

----------------------------------------------------------------------------
(* validate_kpi_output *)

KpiKey(r) == <<r["market"], r["year"], r["genre_harmonized"]>>

\* CHECK 1: the keys that more than one row carries
DuplicateKeys(rows) ==
    {k \in {KpiKey(rows[i]) : i \in 1..Len(rows)} :
        Cardinality({i \in 1..Len(rows) : KpiKey(rows[i]) = k}) > 1}

\* CHECK 2: the (market, year) whose shares do not sum to within [99.8, 100.2]
BadSums(rows) ==
    {k \in {<<rows[i]["market"], rows[i]["year"]>> : i \in 1..Len(rows)} :
        LET total == SumSeq(Column(SelectSeq(rows,
                            LAMBDA r : r["market"] = k[1] /\ r["year"] = k[2]),
                        "market_share_percent"))
        IN total < 9980 \/ total > 10020}

\* CHECK 3: nunique of the growth index
UniqueGrowth(rows) ==
    Cardinality({rows[i]["index_growth_2017_2021"] : i \in 1..Len(rows)})

\* Baseline check: the rows of min_year whose growth index is not 100.0
OffBaseline(rows, min_year) ==
    {i \in 1..Len(rows) : /\ rows[i]["year"] = min_year
                          /\ rows[i]["index_growth_2017_2021"] # Hundred}

\* CHECK 4: the largest market_potential_score is above 150
ScoreTooHigh(rows) ==
    \E i \in 1..Len(rows) : rows[i]["market_potential_score"] > 15000

AppendIf(errors, failing, message) ==
    IF failing THEN Append(errors, message) ELSE errors

\* A validator that stops at the first failing check
ValidateFirstOnly(kpi, min_year) ==
    LET first ==
            IF DuplicateKeys(kpi.rows) # {} THEN <<"DUPLIKATE">>
            ELSE IF BadSums(kpi.rows) # {} THEN <<"MARKET SHARE">>
            ELSE IF UniqueGrowth(kpi.rows) <= 1 THEN <<"INDEX GROWTH">>
            ELSE IF OffBaseline(kpi.rows, min_year) # {} THEN <<"WARNING BASELINE">>
            ELSE IF ScoreTooHigh(kpi.rows) THEN <<"WARNING SCORE">>
            ELSE <<>>
    IN [ok |-> Len(first) = 0, errors |-> first]

\* A validator that lets a rejected table pass
ValidateAlwaysOk(kpi, min_year) == [ok |-> TRUE, errors |-> <<>>]

\* lines 189-224: (is_valid, errors)
validate_kpi_output(kpi, min_year) ==
    LET e1 == AppendIf(<<>>, DuplicateKeys(kpi.rows) # {}, "DUPLIKATE")
        e2 == AppendIf(e1, BadSums(kpi.rows) # {}, "MARKET SHARE")
        e3 == AppendIf(e2, UniqueGrowth(kpi.rows) <= 1, "INDEX GROWTH")
        e4 == AppendIf(e3, OffBaseline(kpi.rows, min_year) # {}, "WARNING BASELINE")
        e5 == AppendIf(e4, ScoreTooHigh(kpi.rows), "WARNING SCORE")
    IN [ok |-> Len(e5) = 0, errors |-> e5]

\* lines 584-593; grouping a table without columns raises
Validate ==
    /\ pc = "validate"
    /\ IF kpi_df.cols # {}
       THEN LET v == validate_kpi_output(kpi_df, MIN_YEAR)
            IN /\ is_valid' = v.ok
               /\ validation_errors' = v.errors
               /\ pc' = IF v.ok THEN "export" ELSE "rejected"
               /\ UNCHANGED error
       ELSE /\ Raise("KeyError")
            /\ UNCHANGED <<is_valid, validation_errors>>
    /\ UNCHANGED <<dash, call, result, present, charts, final_db, dataset, audio_df, genre_df, merged, kpi_df,
                   market_trends, recent_data, high_potential, step_counter, JOURNAL_LOG,
                   disk, export_pos>>

----------------------------------------------------------------------------
(* Export *)

\* lines 598-603: the outputs in the order of the dict
OutputFiles == <<"cleaned_charts_kpi.csv", "spotify_charts_enhanced.csv",
                 "high_potential_tracks.csv", "cleaned_market_trends.csv">>

JournalFile == "data_journal.csv"

AllFiles == {OutputFiles[i] : i \in 1..Len(OutputFiles)} \cup {JournalFile}

OutputTable(filename) ==
    CASE filename = "cleaned_charts_kpi.csv" -> kpi_df
      [] filename = "spotify_charts_enhanced.csv" -> merged
      [] filename = "high_potential_tracks.csv" -> high_potential
      [] filename = "cleaned_market_trends.csv" -> market_trends

\* lines 607-613: one pass of the loop.  to_csv may raise (the file cannot be opened,
\* or the device fills up while it is written); the exception leaves main().
ExportFile ==
    /\ pc = "export"
    /\ export_pos < Len(OutputFiles)
    /\ LET filename == OutputFiles[export_pos + 1]
       IN \/ /\ disk' = [disk EXCEPT ![filename] = "new"]
             /\ JOURNAL_LOG' = LogStep(JOURNAL_LOG, step_counter, "export", filename,
                                       None, Len(OutputTable(filename).rows))
             /\ step_counter' = step_counter + 1
             /\ export_pos' = export_pos + 1
             /\ pc' = IF export_pos + 1 = Len(OutputFiles) THEN "save_journal" ELSE "export"
             /\ UNCHANGED error
          \/ /\ Raise("OSError")
             /\ UNCHANGED <<disk, JOURNAL_LOG, step_counter, export_pos>>
          \/ /\ Raise("OSError")
             /\ disk' = [disk EXCEPT ![filename] = "partial"]
             /\ UNCHANGED <<JOURNAL_LOG, step_counter, export_pos>>
    /\ UNCHANGED <<dash, call, result, present, charts, final_db, dataset, audio_df, genre_df, merged, kpi_df,
                   market_trends, recent_data, high_potential, is_valid,
                   validation_errors>>

\* line 620 and lines 75-80
SaveJournal ==
    /\ pc = "save_journal"
    /\ disk' = [disk EXCEPT ![JournalFile] = "new"]
    /\ pc' = "done"
    /\ UNCHANGED <<dash, call, result, present, error, charts, final_db, dataset, audio_df, genre_df, merged, kpi_df,
                   market_trends, recent_data, high_potential, is_valid,
                   validation_errors, step_counter, JOURNAL_LOG, export_pos>>

----------------------------------------------------------------------------
(* The run of main() *)

\* OUTPUT_DIR before the run: it holds the files of an earlier complete run
DiskBefore == { [f \in AllFiles |-> "old"] }

\* main() is run as a whole: no helper is called on its own
NoCall == [fn |-> "main"]

\* The pipeline runs without the dashboard: dashboard.py is not loaded
NoDashboard ==
    /\ lastfm_api = [api_key |-> FALSE, cache |-> <<>>]
    /\ spotify_api = [credentials |-> FALSE, token |-> FALSE, token_expiry |-> 0]
    /\ clock = 0
    /\ selected_markets = <<>>
    /\ buttons = <<>>

Blank ==
    /\ error = ""
    /\ charts = EmptyFrame
    /\ final_db = EmptyFrame
    /\ dataset = EmptyFrame
    /\ audio_df = EmptyFrame
    /\ genre_df = EmptyFrame
    /\ merged = EmptyFrame
    /\ kpi_df = EmptyFrame
    /\ market_trends = EmptyFrame
    /\ recent_data = EmptyFrame
    /\ high_potential = EmptyFrame
    /\ is_valid = FALSE
    /\ validation_errors = <<>>
    /\ step_counter = 1
    /\ JOURNAL_LOG = <<>>
    /\ export_pos = 0
    /\ call = NoCall
    /\ result = <<>>
    /\ NoDashboard

\* PATHS["raw_charts"], PATHS["raw_database"], PATHS["raw_spotify"]
Sources == {"raw_charts", "raw_database", "raw_spotify"}

Init ==
    /\ pc = "load_charts"
    /\ present \in SUBSET Sources
    /\ Blank
    /\ disk \in DiskBefore

Next ==
    \/ LoadCharts
    \/ FilterMarkets
    \/ FilterYears
    \/ ExtractIds
    \/ DropChartDuplicates
    \/ Imputation
    \/ FinalCleanup
    \/ LoadDatabase
    \/ LoadDataset
    \/ PrepareAudio
    \/ GenreMapping
    \/ MergeAudio
    \/ MergeGenre
    \/ SuccessScore
    \/ KpiMetrics
    \/ MarketTrends
    \/ RecentFilter
    \/ HighPotential
    \/ Validate
    \/ ExportFile
    \/ SaveJournal

Spec == Init /\ [][Next]_vars

----------------------------------------------------------------------------
(* validate_kpi_output and the export on any KPI table *)

MaxKpiRows == 2

\* One row of a KPI table (share and score in hundredths)
KpiInputRow(year, genre, share, growth, score) ==
    [market |-> "DE", year |-> year, genre |-> genre, genre_harmonized |-> genre,
     streams_total |-> 1000,
     market_share_percent |-> share,
     index_growth_2017_2021 |-> growth,
     shannon_diversity |-> 0,
     success_rate_percent |-> 0,
     market_potential_score |-> score,
     growth_momentum_index |-> RoundHalfEven(growth[1] * 100, growth[2])]

KpiInputRows ==
    { KpiInputRow(year, genre, share, growth, score) :
        year \in {2017, 2018}, genre \in {"Pop", "Rock"}, share \in {10000, 5000},
        growth \in {Hundred, Ratio(50, 1)}, score \in {5000, 16000} }

\* The KPI tables of 1..MaxKpiRows rows handed to validate_kpi_output
KpiInputs ==
    { [cols |-> KpiCols, rows |-> rs] : rs \in SeqsUpTo(KpiInputRows, MaxKpiRows) \ {<<>>} }

InitValidate ==
    /\ pc = "validate"
    /\ present = Sources
    /\ error = ""
    /\ charts = EmptyFrame
    /\ final_db = EmptyFrame
    /\ dataset = EmptyFrame
    /\ audio_df = EmptyFrame
    /\ genre_df = EmptyFrame
    /\ merged = EmptyFrame
    /\ kpi_df \in KpiInputs
    /\ market_trends = EmptyFrame
    /\ recent_data = EmptyFrame
    /\ high_potential = EmptyFrame
    /\ is_valid = FALSE
    /\ validation_errors = <<>>
    /\ step_counter = 1
    /\ JOURNAL_LOG = <<>>
    /\ export_pos = 0
    /\ call = NoCall
    /\ result = <<>>
    /\ NoDashboard
    /\ disk \in DiskBefore

NextValidate ==
    \/ Validate
    \/ ExportFile
    \/ SaveJournal

SpecValidate == InitValidate /\ [][NextValidate]_vars

----------------------------------------------------------------------------
(* The aggregation loop on any merged table *)

MaxMergedRows == 2
MaxGenres == 44

MergedCols == {"track_id", "year", "market", "genre_harmonized", "streams",
               "success_score"}

MergedRow(year, genre, streams, score) ==
    [track_id |-> "t1", year |-> year, market |-> "DE", genre_harmonized |-> genre,
     streams |-> streams, success_score |-> score]

MergedRows ==
    { MergedRow(year, genre, streams, score) :
        year \in {2017, 2018}, genre \in {"Pop", "Rock"}, streams \in {200, 1000},
        score \in {0, 70000} }

\* One slice with n genres of a custom mapping table: one large genre and n - 1
\* small ones
SkewedRows(n, large, small) ==
    [i \in 1..n |-> MergedRow(2017, CustomCategories[i],
                              IF i = 1 THEN large ELSE small, 0)]

\* The merged tables handed to the aggregation loop (streams are positive after
\* the final cleanup of the charts)
MergedInputs ==
    { [cols |-> MergedCols, rows |-> rs] : rs \in SeqsUpTo(MergedRows, MaxMergedRows) }
    \cup
    { [cols |-> MergedCols, rows |-> SkewedRows(n, large, 2)] :
        n \in 1..MaxGenres, large \in {1128, 40886} }

InitAgg ==
    /\ pc = "kpi"
    /\ present = Sources
    /\ error = ""
    /\ charts = EmptyFrame
    /\ final_db = EmptyFrame
    /\ dataset = EmptyFrame
    /\ audio_df = EmptyFrame
    /\ genre_df = EmptyFrame
    /\ merged \in MergedInputs
    /\ kpi_df = EmptyFrame
    /\ market_trends = EmptyFrame
    /\ recent_data = EmptyFrame
    /\ high_potential = EmptyFrame
    /\ is_valid = FALSE
    /\ validation_errors = <<>>
    /\ step_counter = 1
    /\ JOURNAL_LOG = <<>>
    /\ export_pos = 0
    /\ call = NoCall
    /\ result = <<>>
    /\ NoDashboard
    /\ disk \in DiskBefore

NextAgg == KpiMetrics

SpecAgg == InitAgg /\ [][NextAgg]_vars

----------------------------------------------------------------------------
(* Properties *)

OutputNames == {OutputFiles[i] : i \in 1..Len(OutputFiles)}

NoOutputWritten == \A f \in OutputNames : disk[f] = "old"

\* validate_kpi_output has returned
Validated ==
    \/ pc \in {"export", "save_journal", "done", "rejected"}
    \/ pc = "failed" /\ error = "OSError"

HardCheckFails(kpi) ==
    \/ DuplicateKeys(kpi.rows) # {}
    \/ BadSums(kpi.rows) # {}
    \/ UniqueGrowth(kpi.rows) <= 1

WarningCheckFails(kpi) ==
    \/ OffBaseline(kpi.rows, MIN_YEAR) # {}
    \/ ScoreTooHigh(kpi.rows)

Messages(errors) == {errors[i] : i \in 1..Len(errors)}

\* C1: when a hard check fails (a duplicate key, a share sum outside [99.8, 100.2],
\* at most one distinct growth index), the run ends rejected and none of the four
\* output tables is written.
C1_HardFailureBlocksExport ==
    (Validated /\ HardCheckFails(kpi_df)) =>
        /\ pc = "rejected"
        /\ ~is_valid
        /\ export_pos = 0
        /\ NoOutputWritten

\* C1: a rejected run whose table fails all three hard checks at once
C1_Witness ==
    /\ pc = "rejected"
    /\ DuplicateKeys(kpi_df.rows) # {}
    /\ BadSums(kpi_df.rows) # {}
    /\ UniqueGrowth(kpi_df.rows) <= 1
    /\ NoOutputWritten

\* C2: when all three hard checks pass and only warning-level checks fail (a
\* baseline row off 100.0, a market potential score above 150), the export is not
\* blocked.
C2_WarningsDoNotBlock ==
    (Validated /\ ~HardCheckFails(kpi_df) /\ WarningCheckFails(kpi_df)) =>
        pc # "rejected"

CheckCount(kpi) ==
    (IF DuplicateKeys(kpi.rows) # {} THEN 1 ELSE 0)
    + (IF BadSums(kpi.rows) # {} THEN 1 ELSE 0)
    + (IF UniqueGrowth(kpi.rows) <= 1 THEN 1 ELSE 0)
    + (IF OffBaseline(kpi.rows, MIN_YEAR) # {} THEN 1 ELSE 0)
    + (IF ScoreTooHigh(kpi.rows) THEN 1 ELSE 0)

\* C3: every check is evaluated whatever the earlier ones found: the error list
\* holds exactly one message per failing check (k failing checks give k messages)
\* and the ok flag is true exactly when the list is empty.
C3_OneMessagePerFailingCheck ==
    Validated =>
        /\ Len(validation_errors) = CheckCount(kpi_df)
        /\ Cardinality(Messages(validation_errors)) = Len(validation_errors)
        /\ "DUPLIKATE" \in Messages(validation_errors)
              <=> DuplicateKeys(kpi_df.rows) # {}
        /\ "MARKET SHARE" \in Messages(validation_errors)
              <=> BadSums(kpi_df.rows) # {}
        /\ "INDEX GROWTH" \in Messages(validation_errors)
              <=> UniqueGrowth(kpi_df.rows) <= 1
        /\ "WARNING BASELINE" \in Messages(validation_errors)
              <=> OffBaseline(kpi_df.rows, MIN_YEAR) # {}
        /\ "WARNING SCORE" \in Messages(validation_errors)
              <=> ScoreTooHigh(kpi_df.rows)
        /\ is_valid <=> validation_errors = <<>>

\* C3: a table that fails all five checks has been validated and got five messages
C3_Witness ==
    /\ Validated
    /\ CheckCount(kpi_df) = 5
    /\ Len(validation_errors) = 5

\* C4: a run that fails or is rejected, at whatever step, leaves every output file
\* of the prior run untouched, so the output directory never mixes old and new
\* tables.
C4_FailedRunLeavesOutputsUntouched ==
    pc \in {"failed", "rejected"} => NoOutputWritten

StepsConsecutive ==
    /\ \A i \in 1..Len(JOURNAL_LOG) : JOURNAL_LOG[i].step = i
    /\ step_counter = Len(JOURNAL_LOG) + 1

AppendOnly ==
    /\ Len(JOURNAL_LOG') >= Len(JOURNAL_LOG)
    /\ SubSeq(JOURNAL_LOG', 1, Len(JOURNAL_LOG)) = JOURNAL_LOG

\* C5: the journal entries carry the step numbers 1, 2, ..., n without gap or
\* repeat whichever optional branches run, steps that removed no row included, and
\* a step only appends to the journal: earlier entries are never changed or removed.
C5_JournalConsecutiveAppendOnly ==
    [](StepsConsecutive) /\ [][AppendOnly]_vars

\* C5: a complete run through both optional branches (audio and genre table not
\* empty) whose journal holds all 23 steps, one of which removed no row
C5_Witness ==
    /\ pc = "done"
    /\ ~IsEmpty(audio_df) /\ ~IsEmpty(genre_df)
    /\ Len(JOURNAL_LOG) = 23
    /\ \E i \in 1..Len(JOURNAL_LOG) : JOURNAL_LOG[i].rows_removed = 0
    /\ \E i \in 1..Len(JOURNAL_LOG) :
          JOURNAL_LOG[i].rows_removed # None /\ JOURNAL_LOG[i].rows_removed > 0

\* A step other than a load has been logged
TransformationRun ==
    \E i \in 1..Len(JOURNAL_LOG) : JOURNAL_LOG[i].action # "load"

\* C6 as stated: when any of the three source files is missing, no transformation
\* step is ever executed on any table.
C6_AnyMissingFileAbortsAtLoad ==
    present # Sources => ~TransformationRun

\* C6, amended: a missing chart export aborts the run at load time, before any
\* table is read or transformed; a missing feature database or audio dataset never
\* aborts the run at load time (its table is replaced by an empty one after the
\* charts were cleaned).
C6_MissingChartsAbortAtLoad ==
    /\ "raw_charts" \notin present =>
          /\ pc \in {"load_charts", "failed"}
          /\ pc = "failed" => error = "FileNotFoundError"
          /\ JOURNAL_LOG = <<>>
          /\ charts = EmptyFrame
    /\ (pc = "failed" /\ error = "FileNotFoundError") => "raw_charts" \notin present
    /\ ("raw_charts" \in present /\ pc \in {"load_dataset", "prepare_audio"}) =>
          TransformationRun

\* C6: the run has aborted at load time for a missing chart export
C6_Witness ==
    /\ "raw_charts" \notin present
    /\ pc = "failed"
    /\ error = "FileNotFoundError"

ListedChartCols == {"rank", "title", "artist"}
ListedDbCols == {"danceability", "energy", "valence", "Artist_followers", "Top10_dummy"}

\* The chart export and a feature database with rows were read; one of the listed
\* columns is absent and every other column is there
AbsentListedColumn ==
    /\ "raw_database" \in present
    /\ Len(final_db.rows) > 0
    /\ FullChartCols \ ListedChartCols \subseteq charts.cols
    /\ FullDbCols \ ListedDbCols \subseteq final_db.cols
    /\ \/ ListedChartCols \ charts.cols # {}
       \/ ListedDbCols \ final_db.cols # {}

\* C7: when one of rank, title, artist, danceability, energy, valence,
\* Artist_followers, Top10_dummy is absent from an input table, the run is not
\* aborted by the absent column.
C7_AbsentColumnNeverAborts ==
    AbsentListedColumn => ~(pc = "failed" /\ error = "KeyError")

\* The rows of df carry pairwise different track ids
UniqueTrackIds(df) ==
    \A i, j \in 1..Len(df.rows) :
        df.rows[i]["track_id"] = df.rows[j]["track_id"] => i = j

\* C8: both left joins keep the chart row count: the merged table has as many rows
\* as the cleaned chart table whatever the feature database holds, the audio and
\* the genre table having one row per track_id.
C8_MergeKeepsRowCount ==
    /\ merged.cols # {} => Len(merged.rows) = Len(charts.rows)
    /\ pc \in {"merge_audio", "merge_genre"} =>
          UniqueTrackIds(audio_df) /\ UniqueTrackIds(genre_df)

\* C8: both joins ran on two chart rows with a feature database that lists one
\* track twice
C8_Witness ==
    /\ pc = "success_score"
    /\ Len(charts.rows) = 2
    /\ Len(final_db.rows) = 2
    /\ ~UniqueTrackIds(final_db)
    /\ ~IsEmpty(audio_df) /\ ~IsEmpty(genre_df)
    /\ Len(merged.rows) = 2

GenreJoined ==
    pc \in {"success_score", "kpi", "market_trends", "recent_filter", "high_potential",
            "validate", "export", "save_journal", "done", "rejected"}

HasAudioMatch(r) ==
    \E i \in 1..Len(audio_df.rows) : audio_df.rows[i]["track_id"] = r["track_id"]

\* C9: after the genre join every merged row has a genre_harmonized that is a
\* category of the mapping table or "Other", never missing, and the audio fields
\* of a row without audio match are missing, not zero, also after the scoring.
C9_GenreFilledAudioLeftMissing ==
    GenreJoined =>
        \A i \in 1..Len(merged.rows) :
            LET r == merged.rows[i]
            IN /\ r["genre_harmonized"] # NoCategory
               /\ r["genre_harmonized"] \in Categories \cup {"Other"}
               /\ ~HasAudioMatch(r) =>
                     \A c \in audio_df.cols \ {"track_id"} : r[c] = NaN

\* C9: the score was computed on a table with a matched row and an unmatched one,
\* whose genre is "Other" and whose audio fields are missing
C9_Witness ==
    /\ pc = "kpi"
    /\ "danceability" \in merged.cols
    /\ \E i, j \in 1..Len(merged.rows) :
          /\ HasAudioMatch(merged.rows[i])
          /\ merged.rows[i]["genre_harmonized"] # "Other"
          /\ ~HasAudioMatch(merged.rows[j])
          /\ merged.rows[j]["genre_harmonized"] = "Other"
          /\ merged.rows[j]["danceability"] = NaN

SliceShares(year, market) ==
    Column(SelectSeq(kpi_df.rows, LAMBDA r : r["year"] = year /\ r["market"] = market),
           "market_share_percent")

KpiSlices == { <<kpi_df.rows[i]["year"], kpi_df.rows[i]["market"]>> :
                  i \in 1..Len(kpi_df.rows) }

SumWithinTolerance(shares) == SumSeq(shares) >= 9980 /\ SumSeq(shares) <= 10020

C11_KpiKeysUnique ==
    pc = "market_trends" =>
        \A i, j \in 1..Len(kpi_df.rows) :
            KpiKey(kpi_df.rows[i]) = KpiKey(kpi_df.rows[j]) => i = j

\* C11: two merged rows of the same market, year and genre were aggregated into
\* one KPI row
C11_Witness ==
    /\ pc = "market_trends"
    /\ Len(merged.rows) = 2
    /\ merged.rows[1]["year"] = merged.rows[2]["year"]
    /\ merged.rows[1]["market"] = merged.rows[2]["market"]
    /\ merged.rows[1]["genre_harmonized"] = merged.rows[2]["genre_harmonized"]
    /\ Len(kpi_df.rows) = 1

\* The rows of the merged table of one year, market and genre
MergedOf(year, market, genre) ==
    SelectSeq(merged.rows, LAMBDA r : /\ r["year"] = year
                                      /\ r["market"] = market
                                      /\ r["genre_harmonized"] = genre)

\* C12: the growth index of a KPI row is exactly 100.0 when its year is the baseline
\* year or its genre has no rows in the baseline year of its market; on every other
\* row it is the genre's stream sum of the year divided by its stream sum of the
\* baseline year of the same market, times 100.
C12_GrowthIndex ==
    pc = "market_trends" =>
        \A i \in 1..Len(kpi_df.rows) :
            LET k == kpi_df.rows[i]
                growth == k["index_growth_2017_2021"]
                base == MergedOf(MIN_YEAR, k["market"], k["genre_harmonized"])
                current == MergedOf(k["year"], k["market"], k["genre_harmonized"])
            IN IF k["year"] = MIN_YEAR \/ base = <<>>
               THEN growth = <<100, 1>> /\ k["growth_momentum_index"] = 10000
               ELSE /\ growth[2] > 0
                    /\ growth[1] * StreamSum(base) = growth[2] * StreamSum(current) * 100

\* C12: a genre with 200 streams in the baseline year and 1000 in the next one was
\* aggregated: its index is 100 in the baseline year and 500 in the next
C12_Witness ==
    /\ pc = "market_trends"
    /\ \E i, j \in 1..Len(kpi_df.rows) :
          /\ kpi_df.rows[i]["year"] = MIN_YEAR
          /\ kpi_df.rows[i]["index_growth_2017_2021"] = <<100, 1>>
          /\ kpi_df.rows[j]["year"] > MIN_YEAR
          /\ kpi_df.rows[j]["genre_harmonized"] = kpi_df.rows[i]["genre_harmonized"]
          /\ kpi_df.rows[j]["index_growth_2017_2021"] = <<500, 1>>

----------------------------------------------------------------------------
(* The aggregation loop on tables with slices that have no streams *)

MergedRowsWithZero ==
    { MergedRow(year, genre, streams, 0) :
        year \in {2017, 2018}, genre \in {"Pop", "Rock"}, streams \in {0, 200} }

\* Merged tables in which a (market, year) slice may sum to zero streams.  main()
\* itself hands no such table to the loop (line 314 keeps streams > 0).
ZeroStreamInputs ==
    { [cols |-> MergedCols, rows |-> rs] :
        rs \in SeqsUpTo(MergedRowsWithZero, MaxMergedRows) }

InitAggZero ==
    /\ pc = "kpi"
    /\ present = Sources
    /\ error = ""
    /\ charts = EmptyFrame
    /\ final_db = EmptyFrame
    /\ dataset = EmptyFrame
    /\ audio_df = EmptyFrame
    /\ genre_df = EmptyFrame
    /\ merged \in ZeroStreamInputs
    /\ kpi_df = EmptyFrame
    /\ market_trends = EmptyFrame
    /\ recent_data = EmptyFrame
    /\ high_potential = EmptyFrame
    /\ is_valid = FALSE
    /\ validation_errors = <<>>
    /\ step_counter = 1
    /\ JOURNAL_LOG = <<>>
    /\ export_pos = 0
    /\ call = NoCall
    /\ result = <<>>
    /\ NoDashboard
    /\ disk \in DiskBefore

SpecAggZero == InitAggZero /\ [][NextAgg]_vars

MergedSlices == { <<merged.rows[i]["year"], merged.rows[i]["market"]>> :
                     i \in 1..Len(merged.rows) }

SliceTotal(k) == StreamSum(RowsOf(merged, k[1], k[2]))

\* C13: a (market, year) slice of the merged table whose streams sum to zero has no
\* row in the KPI table (no share is computed by dividing by zero), while every
\* slice with streams has its rows.
C13_ZeroSliceLeftOut ==
    pc = "market_trends" =>
        \A k \in MergedSlices :
            (SliceTotal(k) = 0) <=> (<<k[1], k[2]>> \notin KpiSlices)

\* C13: a table with one slice without streams and one with streams was
\* aggregated, and only the second has KPI rows
C13_Witness ==
    /\ pc = "market_trends"
    /\ \E k \in MergedSlices : SliceTotal(k) = 0
    /\ \E k \in MergedSlices : SliceTotal(k) > 0
    /\ Len(kpi_df.rows) = 1

----------------------------------------------------------------------------
(* calculate_success_score on any table *)

MaxScoreRows == 2

ScoredCols == {"rank", "streams", "danceability", "energy", "Artist_followers",
               "Top10_dummy"}

ScoreRow(rank, streams, danceability, followers) ==
    [rank |-> rank, streams |-> streams, danceability |-> danceability, energy |-> 80,
     Artist_followers |-> followers, Top10_dummy |-> 1]

\* Rows with values in range, out of range (rank 250), malformed (text in
\* danceability) and infinite (streams)
ScoreRows ==
    { ScoreRow(rank, streams, danceability, followers) :
        rank \in {1, 250}, streams \in {0, 200, 1000, Inf},
        danceability \in {80, Garbage}, followers \in {0, 1023} }

\* The tables of up to MaxScoreRows rows with all six scored columns or all but one
ScoreInputs ==
    { Project([cols |-> ScoredCols, rows |-> rs], cs) :
        rs \in SeqsUpTo(ScoreRows, MaxScoreRows),
        cs \in {ScoredCols} \cup {ScoredCols \ {c} : c \in ScoredCols} }

InitScore ==
    /\ pc = "success_score"
    /\ present = Sources
    /\ error = ""
    /\ charts = EmptyFrame
    /\ final_db = EmptyFrame
    /\ dataset = EmptyFrame
    /\ audio_df = EmptyFrame
    /\ genre_df = EmptyFrame
    /\ merged \in ScoreInputs
    /\ kpi_df = EmptyFrame
    /\ market_trends = EmptyFrame
    /\ recent_data = EmptyFrame
    /\ high_potential = EmptyFrame
    /\ is_valid = FALSE
    /\ validation_errors = <<>>
    /\ step_counter = 1
    /\ JOURNAL_LOG = <<>>
    /\ export_pos = 0
    /\ call = NoCall
    /\ result = <<>>
    /\ NoDashboard
    /\ disk \in DiskBefore

NextScore == SuccessScore

SpecScore == InitScore /\ [][NextScore]_vars

\* calculate_success_score has returned and its result is in the table
Scored == pc = "kpi" /\ "success_score" \in merged.cols

\* C14: every row of any input table gets a score between 0 and 100 inclusive,
\* whichever scored columns are present and whatever their values.
C14_ScoreBetween0And100 ==
    Scored =>
        \A i \in 1..Len(merged.rows) :
            /\ merged.rows[i]["success_score"] >= 0
            /\ merged.rows[i]["success_score"] <= 100000

\* The row of the scenario: rank 1, no streams, danceability and energy 0.8, no
\* followers, top-10 flag set
ScenarioRow == ScoreRow(1, 0, 80, 0)

\* C15: the single row with rank 1, streams 0, danceability 0.8, energy 0.8,
\* followers 0 and top10 1 scores 59.0.
C15_ScenarioScores59 ==
    (Scored /\ merged.cols = ScoredCols \cup {"success_score"}
            /\ Len(merged.rows) = 1
            /\ \A c \in ScoredCols : merged.rows[1][c] = ScenarioRow[c])
        => merged.rows[1]["success_score"] = 59000

\* The table that holds row i of the scored table and no other row
RowAlone(i) ==
    [cols |-> merged.cols \ {"success_score"},
     rows |-> << [c \in merged.cols \ {"success_score"} |-> merged.rows[i][c]] >>]

\* C16: the score of a row depends on its own fields only: in a table with other
\* rows it gets the score it gets in the table that holds it alone.
C16_ScoreOfOwnFieldsOnly ==
    Scored =>
        \A i \in 1..Len(merged.rows) :
            merged.rows[i]["success_score"] = calculate_success_score(RowAlone(i))[1]

----------------------------------------------------------------------------
(* clean_numeric_column on any series *)

MaxSeriesLen == 2

\* The cells of a series: missing, text, infinite, below, inside and above the bounds
SeriesValues == {NaN, Garbage, Inf, -50, 0, 50, 150, 300}

\* (clip_min, clip_max) as the signature allows them: both bounds (0-1 in
\* hundredths, rank 1-200, tempo 30-250), the lower one alone, the upper one alone
ClipBounds == {<<0, 100>>, <<1, 200>>, <<30, 250>>, <<0, None>>, <<None, 100>>}

CleanCalls ==
    { [fn |-> "clean_numeric_column", series |-> xs, clip_min |-> b[1], clip_max |-> b[2]] :
        xs \in SeqsUpTo(SeriesValues, MaxSeriesLen), b \in ClipBounds }

\* No run of main(): a helper is called on its own
InitCall(calls) ==
    /\ pc = "call"
    /\ present = Sources
    /\ error = ""
    /\ charts = EmptyFrame
    /\ final_db = EmptyFrame
    /\ dataset = EmptyFrame
    /\ audio_df = EmptyFrame
    /\ genre_df = EmptyFrame
    /\ merged = EmptyFrame
    /\ kpi_df = EmptyFrame
    /\ market_trends = EmptyFrame
    /\ recent_data = EmptyFrame
    /\ high_potential = EmptyFrame
    /\ is_valid = FALSE
    /\ validation_errors = <<>>
    /\ step_counter = 1
    /\ JOURNAL_LOG = <<>>
    /\ export_pos = 0
    /\ call \in calls
    /\ result = <<>>
    /\ NoDashboard
    /\ disk \in DiskBefore

InitClean == InitCall(CleanCalls)

\* clean_numeric_column(series, col_name, clip_min, clip_max) returns
CallCleanNumeric ==
    /\ pc = "call"
    /\ call.fn = "clean_numeric_column"
    /\ result' = Append(result,
                        [k \in 1..Len(call.series) |->
                            clean_numeric_column(call.series[k], call.clip_min,
                                                 call.clip_max)])
    /\ pc' = "returned"
    /\ UNCHANGED <<dash, call, present, error, charts, final_db, dataset, audio_df, genre_df,
                   merged, kpi_df, market_trends, recent_data, high_potential, is_valid,
                   validation_errors, step_counter, JOURNAL_LOG, disk, export_pos>>

NextClean == CallCleanNumeric

SpecClean == InitClean /\ [][NextClean]_vars

IsNumber(v) == v # NaN /\ v # Garbage

\* C17: called with both bounds lo and hi, clean_numeric_column returns a series of
\* the same length in which every value that is not missing lies in [lo, hi], every
\* entry that was not numeric is missing, and every entry that was inside the
\* bounds is in its place unchanged; it returns for every input.
C17_CleanWithinBounds ==
    (call.fn = "clean_numeric_column" /\ call.clip_min # None /\ call.clip_max # None) =>
        /\ pc \in {"call", "returned"}
        /\ error = ""
        /\ pc = "returned" =>
              /\ Len(result) = 1
              /\ Len(result[1]) = Len(call.series)
              /\ \A k \in 1..Len(call.series) :
                    LET in == call.series[k]
                        out == result[1][k]
                    IN /\ out # NaN => (out >= call.clip_min /\ out <= call.clip_max)
                       /\ ~IsNumber(in) => out = NaN
                       /\ IsNumber(in) => out # NaN
                       /\ (IsNumber(in) /\ in >= call.clip_min /\ in <= call.clip_max)
                             => out = in

\* C17: a series with a text entry and an entry above the upper bound was cleaned
\* with both bounds
C17_Witness ==
    /\ pc = "returned"
    /\ call.fn = "clean_numeric_column"
    /\ call.clip_min # None /\ call.clip_max # None
    /\ Len(call.series) = 2
    /\ call.series[1] = Garbage
    /\ call.series[2] # Inf /\ call.series[2] > call.clip_max
    /\ result[1] = <<NaN, call.clip_max>>

----------------------------------------------------------------------------
(* harmonize_genre on any label *)

\* The spelling of each category, for a category that is harmonized again
CategoryLabels ==
    <<
       <<"Pop", <<"P", "o", "p">>>>, <<"Hip-Hop", <<"H", "i", "p", "-", "H", "o", "p">>>>,
       <<"Electronic", <<"E", "l", "e", "c", "t", "r", "o", "n", "i", "c">>>>,
       <<"Rock", <<"R", "o", "c", "k">>>>, <<"R&B", <<"R", "&", "B">>>>,
       <<"Latin", <<"L", "a", "t", "i", "n">>>>,
       <<"Country", <<"C", "o", "u", "n", "t", "r", "y">>>>,
       <<"Jazz", <<"J", "a", "z", "z">>>>, <<"Other", <<"O", "t", "h", "e", "r">>>>
    >>

CategoryLabel(c) ==
    CategoryLabels[CHOOSE i \in 1..Len(CategoryLabels) : CategoryLabels[i][1] = c][2]

\* Labels that are no key of the table: padded, mixed case, several keys inside, no
\* key inside, empty
OtherLabels ==
    {
       <<" ", "I", "n", "d", "i", "e", " ", "R", "o", "c", "k", "s">>,
       <<"p", "o", "p", " ", "r", "o", "c", "k">>,
       <<"l", "a", "t", "i", "n", " ", "j", "a", "z", "z">>,
       <<"g", "e", "r", "m", "a", "n", " ", "t", "r", "a", "p">>,
       <<"s", "c", "h", "l", "a", "g", "e", "r">>,
       <<"D", "e", "e", "p", " ", "H", "o", "u", "s", "e">>,
       <<"h", "i", "p", "-", "h", "o", "p">>, <<>>, <<" ", " ">>, <<"P", "O", "P">>
    }

\* The labels handed to harmonize_genre: a missing one, every key of the table,
\* every category, and the labels above
GenreLabels ==
    {NoLabel}
    \cup {GENRE_MAPPING[i][1] : i \in 1..Len(GENRE_MAPPING)}
    \cup {CategoryLabels[i][2] : i \in 1..Len(CategoryLabels)}
    \cup OtherLabels

GenreCalls == { [fn |-> "harmonize_genre", label |-> l] : l \in GenreLabels }

InitGenre == InitCall(GenreCalls)

\* harmonize_genre(label) returns
CallHarmonize ==
    /\ pc = "call"
    /\ call.fn = "harmonize_genre"
    /\ result' = Append(result, harmonize_genre(call.label))
    /\ pc' = "returned"
    /\ UNCHANGED <<dash, call, present, error, charts, final_db, dataset, audio_df, genre_df,
                   merged, kpi_df, market_trends, recent_data, high_potential, is_valid,
                   validation_errors, step_counter, JOURNAL_LOG, disk, export_pos>>

\* harmonize_genre is called on the category it returned
CallHarmonizeAgain ==
    /\ pc = "returned"
    /\ call.fn = "harmonize_genre"
    /\ Len(result) = 1
    /\ result' = Append(result, harmonize_genre(CategoryLabel(result[1])))
    /\ pc' = "returned"
    /\ UNCHANGED <<dash, call, present, error, charts, final_db, dataset, audio_df, genre_df,
                   merged, kpi_df, market_trends, recent_data, high_potential, is_valid,
                   validation_errors, step_counter, JOURNAL_LOG, disk, export_pos>>

NextGenre ==
    \/ CallHarmonize
    \/ CallHarmonizeAgain

SpecGenre == InitGenre /\ [][NextGenre]_vars

Harmonized == call.fn = "harmonize_genre" /\ Len(result) >= 1

\* C18: a category of the mapping table, and "Other", is harmonized to itself, so
\* harmonizing the result of harmonize_genre again returns the same category.
C18_HarmonizeIdempotent ==
    /\ Harmonized =>
          \A i \in 1..Len(CategoryLabels) :
              call.label = CategoryLabels[i][2] => result[1] = CategoryLabels[i][1]
    /\ (Harmonized /\ Len(result) = 2) => result[2] = result[1]

KeysEqual(g) == {i \in 1..Len(GENRE_MAPPING) : GENRE_MAPPING[i][1] = g}

KeysWithin(g) == {i \in 1..Len(GENRE_MAPPING) : IsSubstring(GENRE_MAPPING[i][1], g)}

\* C19: a missing label gives "Other"; otherwise the label is lower-cased and
\* trimmed and gives the category of the key equal to it, even when an earlier key
\* is inside it; otherwise the category of the first key of the table that is
\* inside it; otherwise "Other".  The result is a category of the table or "Other".
C19_HarmonizeRule ==
    Harmonized =>
        LET g == StripLabel(Lower(call.label))
            first == CHOOSE i \in KeysWithin(g) : \A j \in KeysWithin(g) : i <= j
        IN /\ result[1] \in Categories
           /\ call.label = NoLabel => result[1] = "Other"
           /\ (call.label # NoLabel /\ KeysEqual(g) # {}) =>
                 \A i \in KeysEqual(g) : result[1] = GENRE_MAPPING[i][2]
           /\ (call.label # NoLabel /\ KeysEqual(g) = {} /\ KeysWithin(g) # {}) =>
                 result[1] = GENRE_MAPPING[first][2]
           /\ (call.label # NoLabel /\ KeysWithin(g) = {}) => result[1] = "Other"

\* C19: "country pop" is a key of the table and has the earlier key "pop" of
\* another category inside it; it was harmonized to the category of the key itself
C19_Witness ==
    /\ Harmonized
    /\ call.label = <<"c", "o", "u", "n", "t", "r", "y", " ", "p", "o", "p">>
    /\ \E i \in KeysWithin(call.label) :
          /\ GENRE_MAPPING[i][2] = "Pop"
          /\ \A j \in KeysEqual(call.label) : i < j
    /\ result[1] = "Country"

----------------------------------------------------------------------------
(* main() run twice in one process on the same merged table *)

RerunCols == (MergedCols \ {"success_score"}) \cup ScoredCols

RerunRow(year, genre, streams, rank, followers) ==
    [track_id |-> "t1", year |-> year, market |-> "DE", genre_harmonized |-> genre,
     streams |-> streams, rank |-> rank, danceability |-> 80, energy |-> 80,
     Artist_followers |-> followers, Top10_dummy |-> 1]

RerunRows ==
    { RerunRow(year, genre, streams, rank, followers) :
        year \in {2017, 2018}, genre \in {"Pop", "Rock"}, streams \in {200, 1000},
        rank \in {1, 250}, followers \in {0, 1023} }

RerunInputs ==
    { [cols |-> RerunCols, rows |-> rs] : rs \in SeqsUpTo(RerunRows, MaxMergedRows) }

\* The first call of main() in a process; the merged table that the unchanged
\* input files give is kept in call
InitRerun ==
    /\ pc = "success_score"
    /\ present = Sources
    /\ error = ""
    /\ charts = EmptyFrame
    /\ final_db = EmptyFrame
    /\ dataset = EmptyFrame
    /\ audio_df = EmptyFrame
    /\ genre_df = EmptyFrame
    /\ merged \in RerunInputs
    /\ kpi_df = EmptyFrame
    /\ market_trends = EmptyFrame
    /\ recent_data = EmptyFrame
    /\ high_potential = EmptyFrame
    /\ is_valid = FALSE
    /\ validation_errors = <<>>
    /\ step_counter = 1
    /\ JOURNAL_LOG = <<>>
    /\ export_pos = 0
    /\ call = [fn |-> "main", merged |-> merged]
    /\ result = <<>>
    /\ NoDashboard
    /\ disk \in DiskBefore

\* main() is called a second time in the same process: the scores and the KPI
\* table of the first call are kept for comparison, the locals of main start
\* afresh (line 229), the same files give the same merged table, and the
\* module-level JOURNAL_LOG (line 53) keeps the entries of the first call
RunAgain ==
    /\ pc = "market_trends"
    /\ call.fn = "main"
    /\ result = <<>>
    /\ result' = <<[merged |-> merged, kpi_df |-> kpi_df]>>
    /\ merged' = call.merged
    /\ kpi_df' = EmptyFrame
    /\ step_counter' = 1
    /\ pc' = "success_score"
    /\ UNCHANGED <<dash, call, present, error, charts, final_db, dataset, audio_df, genre_df,
                   market_trends, recent_data, high_potential, is_valid,
                   validation_errors, JOURNAL_LOG, disk, export_pos>>

NextRerun ==
    \/ SuccessScore
    \/ KpiMetrics
    \/ RunAgain

SpecRerun == InitRerun /\ [][NextRerun]_vars

SecondRun == call.fn = "main" /\ Len(result) = 1

----------------------------------------------------------------------------
(* The high-potential step on any merged table *)

MaxHighRows == 3

HighCols == AggCols \cup {"track_id", "market"}

HighRow(track, year, streams, score) ==
    [track_id |-> track, market |-> "DE", year |-> year, streams |-> streams,
     rank |-> 10, title |-> "title", artist |-> "artist", genre_harmonized |-> "Pop",
     success_score |-> score, danceability |-> 80, energy |-> 80, valence |-> 50]

\* Streams below the floor of 1000 that reach it when two rows of a track are summed
HighRows ==
    { HighRow(track, year, streams, score) :
        track \in {"t1", "t2"}, year \in {2017, 2018, 2019}, streams \in {600, 1000},
        score \in {30000, 70000} }

\* The merged tables that reach step 9: not empty, with one, two or three years
HighInputs ==
    { [cols |-> HighCols, rows |-> rs] : rs \in SeqsUpTo(HighRows, MaxHighRows) \ {<<>>} }

InitHigh ==
    /\ pc = "recent_filter"
    /\ present = Sources
    /\ error = ""
    /\ charts = EmptyFrame
    /\ final_db = EmptyFrame
    /\ dataset = EmptyFrame
    /\ audio_df = EmptyFrame
    /\ genre_df = EmptyFrame
    /\ merged \in HighInputs
    /\ kpi_df = EmptyFrame
    /\ market_trends = EmptyFrame
    /\ recent_data = EmptyFrame
    /\ high_potential = EmptyFrame
    /\ is_valid = FALSE
    /\ validation_errors = <<>>
    /\ step_counter = 1
    /\ JOURNAL_LOG = <<>>
    /\ export_pos = 0
    /\ call = NoCall
    /\ result = <<>>
    /\ NoDashboard
    /\ disk \in DiskBefore

NextHigh ==
    \/ RecentFilter
    \/ HighPotential

SpecHigh == InitHigh /\ [][NextHigh]_vars

HighDone == pc = "validate" /\ call = NoCall

YearsOf(df) == {df.rows[i]["year"] : i \in 1..Len(df.rows)}

\* A year of the table with at most one later year in it
IsRecent(df, y) == Cardinality({z \in YearsOf(df) : z > y}) <= 1

\* The rows of a track in a market in the recent years of the table
RecentRowsOf(df, track, market) ==
    SelectSeq(df.rows, LAMBDA r : /\ r["track_id"] = track
                                  /\ r["market"] = market
                                  /\ IsRecent(df, r["year"]))

\* C21: every row of the high-potential table is a track of the merged table
\* charted in its two most recent years, with streams over those years of at
\* least 1000, and the rows are ordered by success score, highest first.
C21_HighPotentialSubset ==
    HighDone =>
        /\ \A i \in 1..Len(high_potential.rows) :
              LET h == high_potential.rows[i]
                  own == RecentRowsOf(merged, h["track_id"], h["market"])
              IN /\ own # <<>>
                 /\ h["total_streams"] = StreamSum(own)
                 /\ h["total_streams"] >= 1000
                 /\ IsRecent(merged, h["year"])
        /\ \A i, j \in 1..Len(high_potential.rows) :
              i < j => high_potential.rows[i]["success_score"]
                          >= high_potential.rows[j]["success_score"]

\* C21: the merged table has three years; one track was kept, and another track,
\* charted with 1000 streams in the oldest year only, was left out
C21_Witness ==
    /\ HighDone
    /\ Cardinality(YearsOf(merged)) = 3
    /\ Len(high_potential.rows) = 1
    /\ \E i \in 1..Len(merged.rows) :
          /\ merged.rows[i]["track_id"] # high_potential.rows[1]["track_id"]
          /\ merged.rows[i]["streams"] >= 1000
          /\ ~IsRecent(merged, merged.rows[i]["year"])
          /\ RecentRowsOf(merged, merged.rows[i]["track_id"], "DE") = <<>>

\* C28: the high-potential step completes for every merged table that is not
\* empty, also when it holds one year only, and the run goes on to validation.
C28_HighPotentialCompletes ==
    (call = NoCall /\ Len(merged.rows) > 0) => error = ""

----------------------------------------------------------------------------
(* The aggregation loop on slices of up to three rows *)

MaxSliceRows == 3

SliceRows ==
    { MergedRow(year, genre, streams, 0) :
        year \in {2017, 2018}, genre \in {"Pop", "Rock"}, streams \in {50, 100} }

SliceInputs ==
    { [cols |-> MergedCols, rows |-> rs] : rs \in SeqsUpTo(SliceRows, MaxSliceRows) }

InitSlice ==
    /\ pc = "kpi"
    /\ present = Sources
    /\ error = ""
    /\ charts = EmptyFrame
    /\ final_db = EmptyFrame
    /\ dataset = EmptyFrame
    /\ audio_df = EmptyFrame
    /\ genre_df = EmptyFrame
    /\ merged \in SliceInputs
    /\ kpi_df = EmptyFrame
    /\ market_trends = EmptyFrame
    /\ recent_data = EmptyFrame
    /\ high_potential = EmptyFrame
    /\ is_valid = FALSE
    /\ validation_errors = <<>>
    /\ step_counter = 1
    /\ JOURNAL_LOG = <<>>
    /\ export_pos = 0
    /\ call = NoCall
    /\ result = <<>>
    /\ NoDashboard
    /\ disk \in DiskBefore

NextSlice == KpiMetrics

SpecSlice == InitSlice /\ [][NextSlice]_vars

\* Market DE, year 2017: Pop 100, Pop 100, Rock 50
ScenarioSlice ==
    <<MergedRow(2017, "Pop", 100, 0), MergedRow(2017, "Pop", 100, 0),
      MergedRow(2017, "Rock", 50, 0)>>

Aggregated == pc = "market_trends" /\ call = NoCall

\* The streams of the merged rows with the key of a KPI row, and of its slice
StreamsOfKey(k) ==
    SumSeq(Column(SelectSeq(merged.rows, LAMBDA r : /\ r["year"] = k["year"]
                                                    /\ r["market"] = k["market"]
                                                    /\ r["genre_harmonized"] = k["genre"]),
                  "streams"))

StreamsOfSlice(k) ==
    SumSeq(Column(SelectSeq(merged.rows, LAMBDA r : /\ r["year"] = k["year"]
                                                    /\ r["market"] = k["market"]),
                  "streams"))

\* C23: for the rows Pop 100, Pop 100, Rock 50 of market DE and year 2017 the loop
\* emits exactly two KPI rows, with market share 80.0 for Pop and 20.0 for Rock;
\* in general the market share of a KPI row is the stream sum of its genre divided
\* by the stream sum of its (year, market) slice, times 100 (to two decimals).
C23_MarketShareOfSlice ==
    Aggregated =>
        /\ merged.rows = ScenarioSlice =>
              /\ Len(kpi_df.rows) = 2
              /\ kpi_df.rows[1]["genre"] = "Pop"
              /\ kpi_df.rows[1]["market_share_percent"] = 8000
              /\ kpi_df.rows[2]["genre"] = "Rock"
              /\ kpi_df.rows[2]["market_share_percent"] = 2000
        /\ \A i \in 1..Len(kpi_df.rows) :
              LET k == kpi_df.rows[i]
                  off == k["market_share_percent"] * StreamsOfSlice(k)
                            - StreamsOfKey(k) * 10000
              IN /\ StreamsOfSlice(k) > 0
                 /\ 2 * off <= StreamsOfSlice(k)
                 /\ -2 * off <= StreamsOfSlice(k)

\* C23: the loop has run on the scenario and emitted the two rows
C23_Witness ==
    /\ Aggregated
    /\ merged.rows = ScenarioSlice
    /\ Len(kpi_df.rows) = 2
    /\ kpi_df.rows[1]["market_share_percent"] = 8000

\* C24: for the rows Pop 100, Pop 100, Rock 50 of market DE and year 2017 the
\* Shannon diversity on the KPI rows is approximately 0.50 (between 0.45 and 0.55),
\* and the rows of one (year, market) slice carry the same value.
C24_ShannonAboutHalf ==
    Aggregated =>
        /\ merged.rows = ScenarioSlice =>
              \A i \in 1..Len(kpi_df.rows) :
                  /\ kpi_df.rows[i]["shannon_diversity"] >= 450
                  /\ kpi_df.rows[i]["shannon_diversity"] <= 550
        /\ \A i, j \in 1..Len(kpi_df.rows) :
              (/\ kpi_df.rows[i]["year"] = kpi_df.rows[j]["year"]
               /\ kpi_df.rows[i]["market"] = kpi_df.rows[j]["market"])
                  => kpi_df.rows[i]["shannon_diversity"] = kpi_df.rows[j]["shannon_diversity"]

\* C25: called with an upper bound only, clean_numeric_column returns a series in
\* which no value that is not missing exceeds the upper bound.
C25_UpperBoundAloneClips ==
    (/\ call.fn = "clean_numeric_column"
     /\ call.clip_min = None
     /\ call.clip_max # None
     /\ pc = "returned") =>
        \A k \in 1..Len(result[1]) : result[1][k] # NaN => result[1][k] <= call.clip_max

\* C26: the market potential score of every KPI row of the aggregation loop is
\* 0.4 times the market share plus 0.3 times the success rate plus 0.3 times half
\* of the growth index capped at 200 (to within 0.01, the fields being rounded to
\* two decimals); it lies in [0, 100], so never above the validator's ceiling of
\* 150, and beyond 200 the growth index no longer changes it.
C26_MarketPotentialCapped ==
    Aggregated =>
        \A i \in 1..Len(kpi_df.rows) :
            LET k == kpi_df.rows[i]
                n == k["index_growth_2017_2021"][1]
                d == k["index_growth_2017_2021"][2]
                capped == IF n > 200 * d THEN 200 * d ELSE n
                off == 10 * d * k["market_potential_score"]
                          - (4 * d * k["market_share_percent"]
                             + 3 * d * k["success_rate_percent"] + 150 * capped)
            IN /\ off <= 10 * d
               /\ -off <= 10 * d
               /\ k["market_potential_score"] >= 0
               /\ k["market_potential_score"] <= 10000
               /\ k["market_potential_score"] <= 15000

\* C26: a genre that holds its whole slice, with every track successful, grew to
\* 500 percent of its baseline, and its score is the 100 that a growth of 200 gives
C26_Witness ==
    /\ Aggregated
    /\ \E i \in 1..Len(kpi_df.rows) :
          /\ kpi_df.rows[i]["index_growth_2017_2021"] = Ratio(500, 1)
          /\ kpi_df.rows[i]["market_share_percent"] = 10000
          /\ kpi_df.rows[i]["success_rate_percent"] = 10000
          /\ kpi_df.rows[i]["market_potential_score"] = 10000

----------------------------------------------------------------------------
(* The charts after the cleaning steps of main() *)

\* The journal holds the entry of the final cleanup (line 315)
ChartsCleaned ==
    \E i \in 1..Len(JOURNAL_LOG) : JOURNAL_LOG[i].action = "clean_nulls"

\* The streams that are not missing in the (year, market) group of row i
StreamsAround(i) ==
    SelectSeq(Column(SelectSeq(charts.rows,
                               LAMBDA r : /\ r["year"] = charts.rows[i]["year"]
                                          /\ r["market"] = charts.rows[i]["market"]),
                     "streams"),
              NotNa)

\* m is a median of vals: at most half of the values are below it and at most half
\* above it
IsMedianOf(m, vals) ==
    /\ vals # <<>>
    /\ 2 * Len(SelectSeq(vals, LAMBDA v : v < m)) <= Len(vals)
    /\ 2 * Len(SelectSeq(vals, LAMBDA v : v > m)) <= Len(vals)

ChartRowsClean ==
    /\ \A i \in 1..Len(charts.rows) :
          LET r == charts.rows[i]
          IN /\ r["track_id"] # NoId
             /\ NotNa(r["date"])
             /\ r["market"] # NoMarket
             /\ NotNa(r["streams"]) /\ r["streams"] > 0
             /\ NotNa(r["year"]) /\ r["year"] >= MIN_YEAR /\ r["year"] <= MAX_YEAR
             /\ r["region"] \in MARKETS
    /\ \A i, j \in 1..Len(charts.rows) :
          (/\ charts.rows[i]["track_id"] = charts.rows[j]["track_id"]
           /\ charts.rows[i]["date"] = charts.rows[j]["date"]
           /\ charts.rows[i]["market"] = charts.rows[j]["market"]) => i = j

ImputationStep ==
    (pc = "imputation" /\ pc' = "final_cleanup") =>
        /\ Len(charts'.rows) = Len(charts.rows)
        /\ \A i \in 1..Len(charts.rows) :
              LET before == charts.rows[i]["streams"]
                  after == charts'.rows[i]["streams"]
              IN /\ NotNa(before) => after = before
                 /\ (IsNa(before) /\ NotNa(after)) =>
                        /\ after > 0
                        /\ IsMedianOf(after, StreamsAround(i))

\* C29: once the final cleanup of the charts has run, every chart row has a
\* track_id, a date and a market, streams above 0, a year within
\* [MIN_YEAR, MAX_YEAR] and a region among MARKETS, and no two rows share
\* (track_id, date, market); the imputation step changed no streams value that was
\* there and filled a missing one only with the median of its (year, market) group,
\* and only when that median is positive.
C29_ChartsCleanAfterCleanup ==
    /\ [](ChartsCleaned => ChartRowsClean)
    /\ [][ImputationStep]_vars

\* C29: a row whose streams and rank were missing in the export got the median
\* 1000 of its group and is in the cleaned charts, next to the row that gave it
C29_Witness ==
    /\ ChartsCleaned
    /\ Len(charts.rows) = 2
    /\ \E i \in 1..Len(charts.rows) :
          /\ "rank" \in charts.cols
          /\ IsNa(charts.rows[i]["rank"])
          /\ charts.rows[i]["streams"] = 1000

----------------------------------------------------------------------------
(* dashboard.py: the market filter *)

MaxClicks == 3

AllMarkets == <<"DE", "UK", "BR">>

ButtonIds == {"btn-all", "btn-de", "btn-uk", "btn-br"}

\* market_map of line 1654; dict.get gives None for btn-all
market_map(button_id) ==
    CASE button_id = "btn-de" -> "DE"
      [] button_id = "btn-uk" -> "UK"
      [] button_id = "btn-br" -> "BR"
      [] OTHER -> "None"

Elements(list) == {list[i] : i \in 1..Len(list)}

\* lines 857-860 and 1493: the layout as the page loads
LayoutButtons ==
    [b \in ButtonIds |->
        [className |-> IF b = "btn-all" THEN "market-button active" ELSE "market-button",
         n_clicks |-> 0]]

\* lines 1670-1675 and 1711-1716
ButtonClasses(markets) ==
    [b \in ButtonIds |->
        IF b = "btn-all"
        THEN (IF Elements(markets) = Elements(AllMarkets)
              THEN "market-button active" ELSE "market-button")
        ELSE (IF market_map(b) \in Elements(markets)
              THEN "market-button active" ELSE "market-button")]

\* lines 1651-1666
MarketsAfterClick(button_id, current_markets) ==
    IF button_id = "btn-all" THEN AllMarkets
    ELSE LET market == market_map(button_id)
         IN IF Elements(current_markets) = Elements(AllMarkets) THEN <<market>>
            ELSE IF market \in Elements(current_markets)
            THEN LET rest == SelectSeq(current_markets, LAMBDA m : m # market)
                 IN IF rest = <<>> THEN AllMarkets ELSE rest
            ELSE LET more == Append(current_markets, market)
                 IN IF Len(more) > 2 THEN AllMarkets ELSE more

TotalClicks == buttons["btn-all"].n_clicks + buttons["btn-de"].n_clicks
                  + buttons["btn-uk"].n_clicks + buttons["btn-br"].n_clicks

InitMarkets ==
    /\ pc = "serving"
    /\ present = Sources
    /\ error = ""
    /\ charts = EmptyFrame
    /\ final_db = EmptyFrame
    /\ dataset = EmptyFrame
    /\ audio_df = EmptyFrame
    /\ genre_df = EmptyFrame
    /\ merged = EmptyFrame
    /\ kpi_df = EmptyFrame
    /\ market_trends = EmptyFrame
    /\ recent_data = EmptyFrame
    /\ high_potential = EmptyFrame
    /\ is_valid = FALSE
    /\ validation_errors = <<>>
    /\ step_counter = 1
    /\ JOURNAL_LOG = <<>>
    /\ export_pos = 0
    /\ disk \in DiskBefore
    /\ call = [fn |-> "layout"]
    /\ result = <<>>
    /\ lastfm_api = [api_key |-> FALSE, cache |-> <<>>]
    /\ spotify_api = [credentials |-> FALSE, token |-> FALSE, token_expiry |-> 0]
    /\ clock = 0
    /\ selected_markets = AllMarkets
    /\ buttons = LayoutButtons

\* lines 1631-1680: a market button is clicked; its n_clicks goes up and the
\* callback writes the store and the four class names
update_market_selection ==
    /\ pc = "serving"
    /\ TotalClicks < MaxClicks
    /\ \E button_id \in ButtonIds :
          LET markets == MarketsAfterClick(button_id, selected_markets)
              classes == ButtonClasses(markets)
          IN /\ selected_markets' = markets
             /\ buttons' = [b \in ButtonIds |->
                               [className |-> classes[b],
                                n_clicks |-> buttons[b].n_clicks
                                                + (IF b = button_id THEN 1 ELSE 0)]]
             /\ call' = [fn |-> "update_market_selection", triggered_id |-> button_id]
    /\ UNCHANGED <<pc, error, result, pipeline, lastfm_api, spotify_api, clock>>

\* lines 1686-1721: a value of a mobile dropdown changes (clearable=False, lines
\* 967-976); the callback gets the value of the market dropdown
update_from_mobile_filters ==
    /\ pc = "serving"
    /\ \E market_val \in {"ALL", "DE", "UK", "BR"} :
          LET markets == IF market_val = "ALL" THEN AllMarkets ELSE <<market_val>>
              classes == ButtonClasses(markets)
          IN /\ selected_markets' = markets
             /\ buttons' = [b \in ButtonIds |->
                               [className |-> classes[b], n_clicks |-> buttons[b].n_clicks]]
             /\ call' = [fn |-> "update_from_mobile_filters", market_val |-> market_val]
    /\ UNCHANGED <<pc, error, result, pipeline, lastfm_api, spotify_api, clock>>

NextMarkets ==
    \/ update_market_selection
    \/ update_from_mobile_filters

SpecMarkets == InitMarkets /\ [][NextMarkets]_vars

IsActive(b) == buttons[b].className = "market-button active"

\* C30: from the initial selection [DE, UK, BR] on, after any sequence of button
\* clicks and mobile dropdown choices, the store holds a list of markets of
\* {DE, UK, BR} that is not empty and has no duplicates, the 'all' button is active
\* exactly when all three markets are selected, and each market button is active
\* exactly when its market is selected.
C30_SelectionConsistent ==
    pc = "serving" =>
        /\ selected_markets # <<>>
        /\ Elements(selected_markets) \subseteq {"DE", "UK", "BR"}
        /\ Cardinality(Elements(selected_markets)) = Len(selected_markets)
        /\ IsActive("btn-all") <=> (Elements(selected_markets) = {"DE", "UK", "BR"})
        /\ \A b \in ButtonIds \ {"btn-all"} :
              IsActive(b) <=> (market_map(b) \in Elements(selected_markets))

----------------------------------------------------------------------------
(* dashboard.py: LastFmAPI and SpotifyAPI *)

MaxCalls == 2
MaxClock == 15

\* line 218: timedelta(minutes=15)
cache_duration == 15

\* line 282
max_retries == 2

Countries == {"germany", "brazil"}

\* What requests.get / requests.post can end in: an exception, or a response with a
\* status and a body
Response(status, body) == [status |-> status, body |-> body]

Exceptions == {"Timeout", "ConnectionError"}

ServerErrors == {"500"}

LastFmResponses ==
    {Response(st, "none") : st \in Exceptions \cup ServerErrors \cup {"401", "404", "429"}}
    \cup {Response("200", b) :
            b \in {"tracks", "other_tracks", "error", "no_tracks", "malformed"}}

\* lines 319-326: the records built from the body (weight in tenths)
LastFmTracks(body) ==
    IF body = "tracks"
    THEN <<[name |-> "n1", artist |-> "a1", playcount |-> 10, weight |-> 12]>>
    ELSE <<[name |-> "n2", artist |-> "a2", playcount |-> 20, weight |-> 12]>>

\* lines 251-255: country, limit and the quarter of an hour
CacheKey(country, limit, now) == <<country, limit, (now \div 15) * 15>>

Go(do, value, cache) == [do |-> do, value |-> value, cache |-> cache]

\* A request loop without the catch-all of lines 346-348: an error of the
\* connection reaches the caller
LastFmHandleUncaught(resp, attempt) ==
    CASE resp.status = "Timeout" ->
            IF attempt < max_retries - 1 THEN Go("retry", <<>>, FALSE)
            ELSE Go("return", <<>>, FALSE)
      [] resp.status = "ConnectionError" -> Go("raise", <<>>, FALSE)
      [] resp.status = "200" /\ resp.body \in {"tracks", "other_tracks"} ->
            Go("return", LastFmTracks(resp.body), TRUE)
      [] OTHER -> Go("return", <<>>, FALSE)

\* lines 283-348: what one pass of the request loop does with the outcome of
\* requests.get
LastFmHandle(resp, attempt) ==
    CASE resp.status = "Timeout" ->
            IF attempt < max_retries - 1 THEN Go("retry", <<>>, FALSE)
            ELSE Go("return", <<>>, FALSE)
      [] resp.status = "ConnectionError" -> Go("return", <<>>, FALSE)
      [] resp.status = "429" -> Go("return", <<>>, FALSE)
      [] resp.status \in ServerErrors -> Go("return", <<>>, FALSE)
      [] resp.status = "200" ->
            CASE resp.body = "malformed" -> Go("return", <<>>, FALSE)
              [] resp.body = "error" -> Go("return", <<>>, FALSE)
              [] resp.body = "no_tracks" -> Go("return", <<>>, FALSE)
              [] OTHER -> Go("return", LastFmTracks(resp.body), TRUE)
      [] OTHER -> Go("return", <<>>, FALSE)

\* One returned call, as the caller sees it, with the requests it made
Returned(fn, args, value, requests, last, cached) ==
    [fn |-> fn, args |-> args, time |-> clock, value |-> value, requests |-> requests,
     last |-> last, cached |-> cached]

NoResponse == Response("none", "none")

\* lines 257-280: get_top_tracks(country, limit) up to the first request
CallTopTracks ==
    /\ pc = "serving"
    /\ Len(result) < MaxCalls
    /\ \E country \in Countries :
          LET limit == 15
              cache_key == CacheKey(country, limit, clock)
              cache == lastfm_api.cache
          IN IF ~lastfm_api.api_key
             THEN /\ result' = Append(result, Returned("get_top_tracks", <<country, limit>>,
                                                       <<>>, 0, NoResponse, FALSE))
                  /\ UNCHANGED <<pc, call>>
             ELSE IF /\ cache_key \in DOMAIN cache
                     /\ clock - cache[cache_key].time < cache_duration
             THEN /\ result' = Append(result, Returned("get_top_tracks", <<country, limit>>,
                                                       cache[cache_key].data, 0,
                                                       NoResponse, TRUE))
                  /\ UNCHANGED <<pc, call>>
             ELSE /\ pc' = "lastfm_request"
                  /\ call' = [fn |-> "get_top_tracks", args |-> <<country, limit>>,
                              cache_key |-> cache_key, attempt |-> 0, requests |-> 0]
                  /\ UNCHANGED result
    /\ UNCHANGED <<error, pipeline, lastfm_api, spotify_api, clock, selected_markets,
                   buttons>>

\* lines 283-350: one request of get_top_tracks and what follows from its outcome
LastFmRequest ==
    /\ pc = "lastfm_request"
    /\ \E resp \in LastFmResponses :
          LET go == LastFmHandle(resp, call.attempt)
          IN CASE go.do = "retry" ->
                    /\ call' = [call EXCEPT !.attempt = @ + 1, !.requests = @ + 1]
                    /\ UNCHANGED <<pc, error, result, lastfm_api>>
               [] go.do = "return" ->
                    /\ result' = Append(result, Returned("get_top_tracks", call.args,
                                                         go.value, call.requests + 1,
                                                         resp, FALSE))
                    /\ lastfm_api' =
                          IF go.cache
                          THEN [lastfm_api EXCEPT !.cache =
                                   (call.cache_key :> [data |-> go.value, time |-> clock])
                                       @@ @]
                          ELSE lastfm_api
                    /\ pc' = "serving"
                    /\ UNCHANGED <<error, call>>
               [] OTHER ->
                    /\ Raise(resp.status)
                    /\ UNCHANGED <<call, result, lastfm_api>>
    /\ UNCHANGED <<pipeline, spotify_api, clock, selected_markets, buttons>>

\* A quarter of an hour passes between two calls
Tick ==
    /\ pc = "serving"
    /\ clock + 15 <= MaxClock
    /\ clock' = clock + 15
    /\ UNCHANGED <<pc, error, call, result, pipeline, lastfm_api, spotify_api,
                   selected_markets, buttons>>

TokenResponses ==
    {Response(st, "none") : st \in Exceptions \cup {"400"}}
    \cup {Response("200", b) : b \in {"token_short", "token_long", "no_access_token"}}

SpotifyResponses ==
    {Response(st, "none") : st \in Exceptions \cup ServerErrors \cup {"401", "429"}}
    \cup {Response("200", b) : b \in {"items", "no_items", "malformed"}}

\* lines 468-483: the records built from the items of the body
SpotifyTracks ==
    <<[name |-> "n1", artist |-> "a1", popularity |-> 50, market |-> "DE",
       image |-> "url", source |-> "spotify"]>>

\* lines 383-408: _get_token() on the outcome of requests.post; expires_in is 10 or
\* 60 minutes, and line 402 sets token_expiry before line 404 reads access_token
AfterToken(api, resp, now) ==
    CASE resp.status = "200" /\ resp.body = "token_short" ->
            [api EXCEPT !.token = TRUE, !.token_expiry = now + 10 - 5]
      [] resp.status = "200" /\ resp.body = "token_long" ->
            [api EXCEPT !.token = TRUE, !.token_expiry = now + 60 - 5]
      [] resp.status = "200" /\ resp.body = "no_access_token" ->
            [api EXCEPT !.token = FALSE, !.token_expiry = now + 60 - 5]
      [] OTHER -> [api EXCEPT !.token = FALSE]

\* The server gives a token only for credentials
TokenResponsesFor(api) ==
    IF api.credentials THEN TokenResponses
    ELSE {r \in TokenResponses : r.status # "200"}

\* lines 467-486: the part after the three status checks
SpotifyParse(resp) ==
    CASE resp.body = "items" -> Go("return", SpotifyTracks, FALSE)
      [] OTHER -> Go("return", <<>>, FALSE)

\* lines 429-486: what get_featured_tracks does with the outcome of a search
\* request, by the request it was: the first one, the fallback query, or the
\* repetition after a token refresh
SpotifyHandle(stage, resp) ==
    CASE resp.status \in Exceptions -> Go("return", <<>>, FALSE)
      [] stage = "first" /\ resp.status = "200" /\ resp.body = "malformed" ->
            Go("return", <<>>, FALSE)
      [] stage = "first" /\ resp.status = "200" /\ resp.body = "no_items" ->
            Go("fallback", <<>>, FALSE)
      [] stage \in {"first", "fallback"} /\ resp.status = "401" -> Go("refresh", <<>>, FALSE)
      [] resp.status = "429" -> Go("return", <<>>, FALSE)
      [] resp.status # "200" -> Go("return", <<>>, FALSE)
      [] OTHER -> SpotifyParse(resp)

\* lines 427-430 and 419-425: get_featured_tracks() up to _ensure_token
CallFeaturedTracks ==
    /\ pc = "serving"
    /\ Len(result) < MaxCalls
    /\ call' = [fn |-> "get_featured_tracks", args |-> <<"DE", 10>>,
                stage |-> IF ~spotify_api.token \/ clock >= spotify_api.token_expiry
                          THEN "ensure" ELSE "first",
                requests |-> 0]
    /\ pc' = IF ~spotify_api.token \/ clock >= spotify_api.token_expiry
             THEN "spotify_token" ELSE "spotify_search"
    /\ UNCHANGED <<error, result, pipeline, lastfm_api, spotify_api, clock,
                   selected_markets, buttons>>

\* _get_token() called by _ensure_token (line 423) or after a 401 (line 454)
SpotifyToken ==
    /\ pc = "spotify_token"
    /\ \E resp \in TokenResponsesFor(spotify_api) :
          LET api == AfterToken(spotify_api, resp, clock)
          IN /\ spotify_api' = api
             /\ IF api.token
                THEN /\ pc' = "spotify_search"
                     /\ call' = [call EXCEPT !.stage = IF @ = "ensure" THEN "first"
                                                       ELSE "retry"]
                     /\ UNCHANGED result
                ELSE /\ pc' = "serving"
                     /\ result' = Append(result,
                                     Returned("get_featured_tracks", call.args, <<>>,
                                              call.requests,
                                              IF call.stage = "ensure" THEN NoResponse
                                              ELSE Response("401", "none"), FALSE))
                     /\ UNCHANGED call
    /\ UNCHANGED <<error, pipeline, lastfm_api, clock, selected_markets, buttons>>

\* lines 432-489: one search request and what follows from its outcome
SpotifySearch ==
    /\ pc = "spotify_search"
    /\ \E resp \in SpotifyResponses :
          LET go == SpotifyHandle(call.stage, resp)
          IN CASE go.do = "fallback" ->
                    /\ call' = [call EXCEPT !.stage = "fallback", !.requests = @ + 1]
                    /\ UNCHANGED <<pc, error, result>>
               [] go.do = "refresh" ->
                    /\ call' = [call EXCEPT !.stage = "refresh", !.requests = @ + 1]
                    /\ pc' = "spotify_token"
                    /\ UNCHANGED <<error, result>>
               [] go.do = "return" ->
                    /\ result' = Append(result,
                                    Returned("get_featured_tracks", call.args, go.value,
                                             call.requests + 1, resp, FALSE))
                    /\ pc' = "serving"
                    /\ UNCHANGED <<error, call>>
               [] OTHER ->
                    /\ Raise(resp.status)
                    /\ UNCHANGED <<call, result>>
    /\ UNCHANGED <<pipeline, lastfm_api, spotify_api, clock, selected_markets, buttons>>

\* Both API objects after their constructors (lines 213-231 and 363-381), at time 0:
\* with or without the key and the credentials of .env, the token fetched or not
ApisAfterInit ==
    { [credentials |-> FALSE, token |-> FALSE, token_expiry |-> 0] }
    \cup { AfterToken([credentials |-> TRUE, token |-> FALSE, token_expiry |-> 0], r, 0) :
             r \in TokenResponses }

InitLive ==
    /\ pc = "serving"
    /\ present = Sources
    /\ error = ""
    /\ charts = EmptyFrame
    /\ final_db = EmptyFrame
    /\ dataset = EmptyFrame
    /\ audio_df = EmptyFrame
    /\ genre_df = EmptyFrame
    /\ merged = EmptyFrame
    /\ kpi_df = EmptyFrame
    /\ market_trends = EmptyFrame
    /\ recent_data = EmptyFrame
    /\ high_potential = EmptyFrame
    /\ is_valid = FALSE
    /\ validation_errors = <<>>
    /\ step_counter = 1
    /\ JOURNAL_LOG = <<>>
    /\ export_pos = 0
    /\ disk \in DiskBefore
    /\ call = [fn |-> "layout"]
    /\ result = <<>>
    /\ lastfm_api \in { [api_key |-> k, cache |-> <<>>] : k \in BOOLEAN }
    /\ spotify_api \in ApisAfterInit
    /\ clock = 0
    /\ selected_markets = AllMarkets
    /\ buttons = LayoutButtons

NextLive ==
    \/ CallTopTracks
    \/ LastFmRequest
    \/ CallFeaturedTracks
    \/ SpotifyToken
    \/ SpotifySearch
    \/ Tick

SpecLive == InitLive /\ [][NextLive]_vars

\* The outcome of a request is a success: status 200 with a body of tracks
IsSuccess(resp) == resp.status = "200" /\ resp.body \in {"tracks", "other_tracks", "items"}

\* C22: get_top_tracks and get_featured_tracks never raise to their caller: for
\* every outcome of their requests (timeout, connection error, 401, 429, 5xx, other
\* status, malformed or error-carrying body, missing credentials, failed token
\* refresh) they return a list of track records, and the list is empty on any
\* failure.
C22_NeverRaises ==
    /\ pc # "failed"
    /\ error = ""
    /\ \A i \in 1..Len(result) :
          /\ result[i].value \in {<<>>, LastFmTracks("tracks"), LastFmTracks("other_tracks"),
                                  SpotifyTracks}
          /\ (~result[i].cached /\ ~IsSuccess(result[i].last)) => result[i].value = <<>>

\* C22: a call of get_top_tracks has returned the empty list after a connection
\* error, and a call of get_featured_tracks after a token refresh that failed
C22_Witness ==
    /\ pc = "serving"
    /\ \E i \in 1..Len(result) :
          /\ result[i].fn = "get_top_tracks"
          /\ result[i].last.status = "ConnectionError"
          /\ result[i].value = <<>>
    /\ \E i \in 1..Len(result) :
          /\ result[i].fn = "get_featured_tracks"
          /\ result[i].last.status = "401"
          /\ result[i].requests = 1
          /\ ~spotify_api.token
          /\ result[i].value = <<>>

\* C27: get_top_tracks repeats the request after a 429 or a 5xx as after a timeout,
\* with at most max_retries requests per call; a successful result is cached and
\* returned without a request by later calls with the same country and limit in
\* the same quarter of an hour; an empty result of a failure is never cached.
C27_RetriesAndCache ==
    /\ \A i \in 1..Len(result) :
          result[i].fn = "get_top_tracks" =>
              /\ result[i].requests <= max_retries
              /\ result[i].last.status \in ({"Timeout", "429"} \cup ServerErrors)
                    => result[i].requests = max_retries
    /\ \A i, j \in 1..Len(result) :
          (/\ i < j
           /\ result[i].fn = "get_top_tracks" /\ result[j].fn = "get_top_tracks"
           /\ result[i].args = result[j].args
           /\ result[i].time \div 15 = result[j].time \div 15
           /\ result[i].value # <<>>)
              => /\ result[j].requests = 0
                 /\ result[j].value = result[i].value
    /\ \A k \in DOMAIN lastfm_api.cache : lastfm_api.cache[k].data # <<>>

====
